---------------------------- MODULE Spec2Model ----------------------------
(***************************************************************************)
(* A model of the game backend (src/game): the relational store (games,    *)
(* players, hex tiles, characters, map items, interactables), the item     *)
(* catalog (src/items) and the REST handlers that read, validate and write *)
(* them.  A table is a sequence of rows whose index is the row's primary   *)
(* key (auto-increment).  A nullable column holds None or Some(v).         *)
(* Timestamps written from now() are abstracted to Some("now").            *)
(***************************************************************************)
EXTENDS Integers, Sequences, FiniteSets, TLC

VARIABLES
    games,          \* table Game
    players,        \* table Player
    tiles,          \* table HexTile
    characters,     \* table Character
    map_items,      \* table MapItem
    interactables,  \* table Interactable
    catalog,        \* table Item (the item catalog)
    reqs,           \* requests in flight (concurrent specifications only)
    last,           \* the last request served and its response
    startOks,       \* history: successful start responses per game
    lootOks,        \* history: successful loot responses per map item
    interactOks     \* history: successful interact responses per interactable

vars == <<games, players, tiles, characters, map_items, interactables, catalog,
          reqs, last, startOks, lootOks, interactOks>>

(***************************************************************************)
(* Bounds of the model.                                                    *)
(***************************************************************************)
NumGames == 2
MaxPlayersInput == 2
MaxStarts == 2
MaxCoord == 1
NumCharacters == 2
MaxMapItems == 1
MaxInventory == 2
NumRequests == 2
NumInteractables == 1
MaxUses == 2
MaxCooldown == 1
MaxTick == 1
MaxInteractions == 3
NumUsers == 2
MaxPlayerRows == 2
NearbyMaxTiles == 3
MaxCatalogRows == 2
MoveSpan == 3

None == <<>>
Some(v) == <<v>>

\* HTTP status codes of rest_framework.status used by the handlers.
HTTP_200_OK == 200
HTTP_201_CREATED == 201
HTTP_400_BAD_REQUEST == 400
HTTP_404_NOT_FOUND == 404

NoRequest == [op |-> "none", target |-> 0, arg |-> None, status |-> 0, error |-> ""]

Response(op, target, arg, status, error) ==
    [op |-> op, target |-> target, arg |-> arg, status |-> status, error |-> error]

IsOk(r) == r.status \in {HTTP_200_OK, HTTP_201_CREATED}

\* A request in flight returns its response.
Finished(req, status) == [req EXCEPT !.pc = "done", !.status = status]

\* get_object(): the primary key names a row of the table.
Exists(table, pk) == pk \in DOMAIN table

(***************************************************************************)
(* Games.                                                                  *)
(***************************************************************************)
GameStatuses == {"waiting", "active", "paused", "finished"}

MinMapSize == 10
MaxMapSize == 200

\* GameCreateSerializer.validate_map_width / validate_map_height.
MapSizeValid(value) == ~(value < MinMapSize \/ value > MaxMapSize)

\* The row a successful create inserts: the model's defaults, status waiting.
NewGame(max_players) ==
    [status |-> "waiting", max_players |-> max_players, current_tick |-> 0,
     started_at |-> None]

GameCreate(max_players, width, height) ==
    /\ Len(games) < NumGames
    /\ IF MapSizeValid(width) /\ MapSizeValid(height)
       THEN /\ games' = Append(games, NewGame(max_players))
            /\ startOks' = Append(startOks, 0)
            /\ last' = Response("game_create", Len(games) + 1, <<width, height>>,
                                HTTP_201_CREATED, "")
       ELSE /\ last' = Response("game_create", 0, <<width, height>>,
                                HTTP_400_BAD_REQUEST, "Map size must be between 10 and 200")
            /\ UNCHANGED <<games, startOks>>
    /\ UNCHANGED <<catalog, players, tiles, characters, map_items, interactables, reqs, lootOks, interactOks>>

\* GameViewSet.start: the guard `game.status != 'waiting'` negated.
StartAllowed(game) == game.status = "waiting"

GameStart(g) ==
    /\ (Exists(games, g) /\ StartAllowed(games[g])) => startOks[g] < MaxStarts
    /\ IF ~Exists(games, g)
       THEN /\ last' = Response("start", g, None, HTTP_404_NOT_FOUND, "Not found.")
            /\ UNCHANGED <<games, startOks>>
       ELSE IF ~StartAllowed(games[g])
       THEN /\ last' = Response("start", g, None, HTTP_400_BAD_REQUEST,
                                "Game must be in 'waiting' status to start")
            /\ UNCHANGED <<games, startOks>>
       ELSE /\ games' = [games EXCEPT ![g].status = "active",
                                      ![g].started_at = Some("now")]
            /\ startOks' = [startOks EXCEPT ![g] = @ + 1]
            /\ last' = Response("start", g, None, HTTP_200_OK, "")
    /\ UNCHANGED <<catalog, players, tiles, characters, map_items, interactables, reqs, lootOks, interactOks>>

\* GameDetailSerializer: status is a writable choice field, max_players a
\* writable integer; current_tick is read-only.  A value outside the choices
\* is rejected by the field's own validation.
GameStatusWritable(old, new) == new \in GameStatuses

\* PATCH games/{id} with {status}.
GamePartialUpdate(g, status) ==
    /\ IF ~Exists(games, g)
       THEN /\ last' = Response("game_partial_update", g, status,
                                HTTP_404_NOT_FOUND, "Not found.")
            /\ UNCHANGED games
       ELSE IF ~GameStatusWritable(games[g].status, status)
       THEN /\ last' = Response("game_partial_update", g, status,
                                HTTP_400_BAD_REQUEST, "is not a valid choice.")
            /\ UNCHANGED games
       ELSE /\ games' = [games EXCEPT ![g].status = status]
            /\ last' = Response("game_partial_update", g, status, HTTP_200_OK, "")
    /\ UNCHANGED <<catalog, players, tiles, characters, map_items, interactables, reqs,
                   startOks, lootOks, interactOks>>

\* PUT games/{id} with {status, max_players} (and the required name, map_name).
GameUpdate(g, status, max_players) ==
    /\ IF ~Exists(games, g)
       THEN /\ last' = Response("game_update", g, <<status, max_players>>,
                                HTTP_404_NOT_FOUND, "Not found.")
            /\ UNCHANGED games
       ELSE IF ~GameStatusWritable(games[g].status, status)
       THEN /\ last' = Response("game_update", g, <<status, max_players>>,
                                HTTP_400_BAD_REQUEST, "is not a valid choice.")
            /\ UNCHANGED games
       ELSE /\ games' = [games EXCEPT ![g].status = status,
                                      ![g].max_players = max_players]
            /\ last' = Response("game_update", g, <<status, max_players>>,
                                HTTP_200_OK, "")
    /\ UNCHANGED <<catalog, players, tiles, characters, map_items, interactables, reqs,
                   startOks, lootOks, interactOks>>

StatusInputs == GameStatuses \cup {"bogus"}
MapSizeInputs == {MinMapSize - 1, MinMapSize, MaxMapSize, MaxMapSize + 1}

InitGame ==
    /\ games = <<>>
    /\ players = <<>>
    /\ catalog = <<>>
    /\ tiles = <<>>
    /\ characters = <<>>
    /\ map_items = <<>>
    /\ interactables = <<>>
    /\ reqs = <<>>
    /\ last = NoRequest
    /\ startOks = <<>>
    /\ lootOks = <<>>
    /\ interactOks = <<>>

NextGame ==
    \/ \E mp \in 1..MaxPlayersInput, w \in MapSizeInputs, h \in {MinMapSize, MaxMapSize + 1} :
          GameCreate(mp, w, h)
    \/ \E g \in 1..NumGames : GameStart(g)
    \/ \E g \in 1..NumGames, s \in StatusInputs : GamePartialUpdate(g, s)
    \/ \E g \in 1..NumGames, s \in StatusInputs, mp \in 1..MaxPlayersInput :
          GameUpdate(g, s, mp)

\* The game lifecycle: create, start, update, partial_update, one request at a time.
SpecGame == InitGame /\ [][NextGame]_vars

(***************************************************************************)
(* Players.  A request carries the authenticated user that sent it.        *)
(***************************************************************************)
\* An exception no handler catches: Django answers 500.
HTTP_500_INTERNAL_SERVER_ERROR == 500

IsError(r) ==
    r.status \in {HTTP_400_BAD_REQUEST, HTTP_404_NOT_FOUND, HTTP_500_INTERNAL_SERVER_ERROR}

\* A color is a string, modelled as the sequence of its characters.
ColorLength == 7
HexDigits == {"0", "1", "2", "3", "4", "5", "6", "7", "8", "9",
              "a", "b", "c", "d", "e", "f", "A", "B", "C", "D", "E", "F"}

\* str.startswith('#').
StartsWithHash(value) == Len(value) >= 1 /\ value[1] = "#"

\* PlayerCreateSerializer.validate_color, with the refusal inverted.
validate_color(value) == ~(~StartsWithHash(value) \/ Len(value) # ColorLength)

\* The color field: a CharField(max_length=7) that refuses the empty string,
\* then validate_color.
ColorFieldValid(value) ==
    /\ value # <<>>
    /\ Len(value) <= ColorLength
    /\ validate_color(value)

\* game.players.filter(is_active=True).count().
ActivePlayerCount(rows, game) ==
    Cardinality({p \in DOMAIN rows : rows[p].game = game /\ rows[p].is_active})

\* PlayerCreateSerializer.validate: the error it raises, "" when none.
JoinErrorIgnoringFull(game, rows, g) ==
    IF game.status \notin {"waiting", "active"}
    THEN "Cannot join a finished or paused game"
    ELSE ""
JoinError(game, rows, g) ==
    IF game.status \notin {"waiting", "active"}
    THEN "Cannot join a finished or paused game"
    ELSE IF ActivePlayerCount(rows, g) >= game.max_players
    THEN "Game is full"
    ELSE ""

\* unique_together (game, user): the insert is refused with IntegrityError.
UniquePlayerNeverViolated(rows, game, user) == FALSE
UniquePlayerViolated(rows, game, user) ==
    \E p \in DOMAIN rows : rows[p].game = game /\ rows[p].user = user

\* The row perform_create inserts: the validated fields, the requesting user
\* and the model's defaults.
NewPlayer(game, user, color) ==
    [game |-> game, user |-> user, color |-> color, is_active |-> TRUE]

\* POST players/ {game, player_name, color, avatar} sent by `user`.
Join(user, g, color) ==
    /\ (/\ Exists(games, g) /\ ColorFieldValid(color)
        /\ JoinError(games[g], players, g) = ""
        /\ ~UniquePlayerViolated(players, g, user)) => Len(players) < MaxPlayerRows
    /\ IF ~Exists(games, g) \/ ~ColorFieldValid(color)
       THEN /\ last' = Response("join", g, <<user, color>>, HTTP_400_BAD_REQUEST,
                                IF ~Exists(games, g) THEN "Invalid pk"
                                ELSE "Color must be in hex format (#RRGGBB)")
            /\ UNCHANGED players
       ELSE IF JoinError(games[g], players, g) # ""
       THEN /\ last' = Response("join", g, <<user, color>>, HTTP_400_BAD_REQUEST,
                                JoinError(games[g], players, g))
            /\ UNCHANGED players
       ELSE IF UniquePlayerViolated(players, g, user)
       THEN /\ last' = Response("join", g, <<user, color>>,
                                HTTP_500_INTERNAL_SERVER_ERROR, "IntegrityError")
            /\ UNCHANGED players
       ELSE /\ players' = Append(players, NewPlayer(g, user, color))
            /\ last' = Response("join", g, <<user, color>>, HTTP_201_CREATED, "")
    /\ UNCHANGED <<catalog, games, tiles, characters, map_items, interactables, reqs,
                   startOks, lootOks, interactOks>>

\* PATCH players/{id} {is_active}: PlayerDetailSerializer, is_active writable.
PlayerPartialUpdate(p, is_active) ==
    /\ IF ~Exists(players, p)
       THEN /\ last' = Response("player_partial_update", p, is_active,
                                HTTP_404_NOT_FOUND, "Not found.")
            /\ UNCHANGED players
       ELSE /\ players' = [players EXCEPT ![p].is_active = is_active]
            /\ last' = Response("player_partial_update", p, is_active, HTTP_200_OK, "")
    /\ UNCHANGED <<catalog, games, tiles, characters, map_items, interactables, reqs,
                   startOks, lootOks, interactOks>>

\* The strings a client sends as color: a head character followed by n copies
\* of a tail character, and the empty string.
Repeat(ch, n) == [k \in 1..n |-> ch]
ColorInputs ==
    {<<>>} \cup {<<h>> \o Repeat(t, ColorLength - 1) : h \in {"#", "F"}, t \in {"F", "G"}}
           \cup {<<"#">> \o Repeat("F", n) : n \in {ColorLength - 2, ColorLength}}

Red == <<"#", "F", "F", "0", "0", "0", "0">>

\* The games a join can meet: game 1 of any status with room for one or more
\* players, the other games waiting with room for one.
JoinWorld ==
    /\ \E mp \in 1..MaxPlayersInput, s \in GameStatuses :
          games = [g \in 1..NumGames |->
                      IF g = 1 THEN [NewGame(mp) EXCEPT !.status = s] ELSE NewGame(1)]
    /\ players = <<>>
    /\ catalog = <<>>
    /\ tiles = <<>>
    /\ characters = <<>>
    /\ map_items = <<>>
    /\ interactables = <<>>
    /\ reqs = <<>>
    /\ last = NoRequest
    /\ startOks = [g \in 1..NumGames |-> 0]
    /\ lootOks = <<>>
    /\ interactOks = <<>>

JoinRequest ==
    \E u \in 1..NumUsers, g \in 0..NumGames, c \in ColorInputs : Join(u, g, c)

NextJoin ==
    \/ JoinRequest
    \/ \E p \in 0..MaxPlayerRows, a \in BOOLEAN : PlayerPartialUpdate(p, a)

\* Joining: join and player partial_update, one request at a time.
SpecJoin == JoinWorld /\ [][NextJoin]_vars

\* C25: the number of active players of a game never exceeds the game's
\* max_players, under join and player partial_update.
C25_ActivePlayersWithinMax ==
    \A g \in DOMAIN games :
        Cardinality({p \in DOMAIN players : players[p].game = g /\ players[p].is_active})
            <= games[g].max_players

(***************************************************************************)
(* Concurrent join requests: is_valid() reads the game and counts its      *)
(* players, serializer.save() inserts; the database checks unique_together *)
(* at the insert.                                                          *)
(***************************************************************************)
NewJoinRequest == [pc |-> "new", user |-> 0, game |-> 0, status |-> 0]

\* serializer.is_valid(raise_exception=True).
JoinValidate(r, user, g) ==
    /\ reqs[r].pc = "new"
    /\ IF JoinError(games[g], players, g) # ""
       THEN /\ reqs' = [reqs EXCEPT ![r] =
                           Finished([@ EXCEPT !.user = user, !.game = g],
                                    HTTP_400_BAD_REQUEST)]
            /\ last' = Response("join", g, <<user, Red>>, HTTP_400_BAD_REQUEST,
                                JoinError(games[g], players, g))
       ELSE /\ reqs' = [reqs EXCEPT ![r] = [@ EXCEPT !.pc = "save", !.user = user,
                                                     !.game = g]]
            /\ UNCHANGED last
    /\ UNCHANGED <<catalog, games, players, tiles, characters, map_items, interactables,
                   startOks, lootOks, interactOks>>

\* perform_create: serializer.save(user=self.request.user).
JoinSave(r) ==
    /\ reqs[r].pc = "save"
    /\ IF UniquePlayerViolated(players, reqs[r].game, reqs[r].user)
       THEN /\ reqs' = [reqs EXCEPT ![r] = Finished(@, HTTP_500_INTERNAL_SERVER_ERROR)]
            /\ last' = Response("join", reqs[r].game, <<reqs[r].user, Red>>,
                                HTTP_500_INTERNAL_SERVER_ERROR, "IntegrityError")
            /\ UNCHANGED players
       ELSE /\ players' = Append(players, NewPlayer(reqs[r].game, reqs[r].user, Red))
            /\ reqs' = [reqs EXCEPT ![r] = Finished(@, HTTP_201_CREATED)]
            /\ last' = Response("join", reqs[r].game, <<reqs[r].user, Red>>,
                                HTTP_201_CREATED, "")
    /\ UNCHANGED <<catalog, games, tiles, characters, map_items, interactables,
                   startOks, lootOks, interactOks>>

\* Games open to join, with NumRequests requests about to arrive.
InitJoinRace ==
    /\ games \in [1..NumGames -> {[NewGame(mp) EXCEPT !.status = s] :
                                     mp \in 1..MaxPlayersInput,
                                     s \in {"waiting", "active", "paused"}}]
    /\ players = <<>>
    /\ catalog = <<>>
    /\ tiles = <<>>
    /\ characters = <<>>
    /\ map_items = <<>>
    /\ interactables = <<>>
    /\ reqs = [r \in 1..NumRequests |-> NewJoinRequest]
    /\ last = NoRequest
    /\ startOks = [g \in 1..NumGames |-> 0]
    /\ lootOks = <<>>
    /\ interactOks = <<>>

NextJoinRace ==
    \/ \E r \in DOMAIN reqs, u \in 1..NumUsers, g \in 1..NumGames : JoinValidate(r, u, g)
    \/ \E r \in DOMAIN reqs : JoinSave(r)

\* Join requests served concurrently, their validation and insert interleaved.
SpecJoinRace == InitJoinRace /\ [][NextJoinRace]_vars

\* The step just taken answered join(g) sent by user u with this color.
JoinStep(u, g, color) ==
    last' # last /\ last'.op = "join" /\ last'.target = g /\ last'.arg = <<u, color>>

IsHexColor(color) ==
    /\ Len(color) = ColorLength /\ color[1] = "#"
    /\ \A k \in 2..ColorLength : color[k] \in HexDigits

GameClosedOrFull(g) ==
    \/ games[g].status \notin {"waiting", "active"}
    \/ ActivePlayerCount(players, g) >= games[g].max_players

HasPlayerIn(u, g) == \E p \in DOMAIN players : players[p].game = g /\ players[p].user = u

\* The step added exactly one player row, of user u in game g.
JoinedOnce(u, g) ==
    /\ Len(players') = Len(players) + 1
    /\ SubSeq(players', 1, Len(players)) = players
    /\ players'[Len(players')].game = g
    /\ players'[Len(players')].user = u

\* C11 as stated: a join with a color #RRGGBB fails if the game's status is
\* neither waiting nor active, fails if the game's count of active players is
\* >= max_players, and otherwise creates exactly one new Player of the
\* requesting user in that game.
C11_JoinUnlessClosedOrFull ==
    [][\A u \in 1..NumUsers, g \in DOMAIN games, color \in ColorInputs :
          (JoinStep(u, g, color) /\ IsHexColor(color)) =>
              IF GameClosedOrFull(g)
              THEN IsError(last') /\ players' = players
              ELSE IsOk(last') /\ JoinedOnce(u, g)]_vars

\* C11 amended: the join also fails if the requesting user already has a
\* Player in that game.
C11_JoinUnlessClosedFullOrJoined ==
    [][\A u \in 1..NumUsers, g \in DOMAIN games, color \in ColorInputs :
          (JoinStep(u, g, color) /\ IsHexColor(color)) =>
              IF GameClosedOrFull(g) \/ HasPlayerIn(u, g)
              THEN IsError(last') /\ players' = players
              ELSE IsOk(last') /\ JoinedOnce(u, g)]_vars

\* C11 witness: a join filled the last free place of a game that already had
\* an active player.
C11_Witness ==
    /\ last.op = "join" /\ IsOk(last) /\ IsHexColor(last.arg[2])
    /\ ActivePlayerCount(players, last.target) = games[last.target].max_players
    /\ ActivePlayerCount(players, last.target) >= 2
    /\ players[Len(players)].game = last.target
    /\ players[Len(players)].user = last.arg[1]

\* C12: every color a join accepted is '#' followed by exactly six
\* hexadecimal digits.
C12_AcceptedColorIsHex ==
    \A p \in DOMAIN players : IsHexColor(players[p].color)

PlayersUnique ==
    \A p1 \in DOMAIN players, p2 \in DOMAIN players :
        (players[p1].game = players[p2].game /\ players[p1].user = players[p2].user)
            => p1 = p2

\* C13: under any interleaving of join requests there is at most one Player
\* per (game, user) pair in every state, and a join whose insert finds a
\* Player of the same user in the same game fails and creates no row.
C13_OnePlayerPerGameUser ==
    /\ []PlayersUnique
    /\ [][\A r \in DOMAIN reqs :
            (reqs[r].pc = "save" /\ reqs'[r].pc = "done"
                /\ HasPlayerIn(reqs[r].user, reqs[r].game)) =>
                   /\ reqs'[r].status \notin {HTTP_200_OK, HTTP_201_CREATED}
                   /\ players' = players]_vars

\* C13 witness: two requests of one user for one game both passed validation
\* before either inserted; one created the player, the other was refused.
C13_Witness ==
    \E r1 \in DOMAIN reqs, r2 \in DOMAIN reqs :
        /\ r1 # r2
        /\ reqs[r1].user = reqs[r2].user /\ reqs[r1].game = reqs[r2].game
        /\ reqs[r1].pc = "done" /\ reqs[r1].status = HTTP_201_CREATED
        /\ reqs[r2].pc = "done" /\ reqs[r2].status = HTTP_500_INTERNAL_SERVER_ERROR
        /\ Cardinality({p \in DOMAIN players : players[p].game = reqs[r1].game
                                               /\ players[p].user = reqs[r1].user}) = 1

(***************************************************************************)
(* Hex tiles, characters and map items.                                    *)
(***************************************************************************)
Coords == 0..MaxCoord
CoordInputs == {None} \cup {Some(x) : x \in Coords}

\* HexTile.objects.filter(game=game, q=q, r=r): the primary keys that match.
TilesAt(game, q, r) ==
    {t \in DOMAIN tiles : tiles[t].game = game /\ tiles[t].q = q /\ tiles[t].r = r}

\* A passable tile of the game lies at (q, r).
PassableTileAt(game, q, r) ==
    \E t \in DOMAIN tiles :
        tiles[t].game = game /\ tiles[t].q = q /\ tiles[t].r = r /\ tiles[t].is_passable

\* QuerySet.first(): the matching row of least primary key, or None.
First(pks) == IF pks = {} THEN None ELSE Some(CHOOSE p \in pks : \A o \in pks : p <= o)

\* CharacterViewSet.get_queryset + get_object: dead characters are excluded.
VisibleCharacter(chars, c) == Exists(chars, c) /\ chars[c].status # "dead"

\* CharacterViewSet.move, the two tile checks: a passable tile of the
\* character's game lies at (q, r).  "" when the move is allowed, else the error.
MoveErrorIgnoringPassable(ch, q, r) ==
    IF TilesAt(ch.game, q, r) = {} THEN "Invalid tile coordinates" ELSE ""
MoveError(ch, q, r) ==
    LET tile == First(TilesAt(ch.game, q, r))
    IN  IF tile = None THEN "Invalid tile coordinates"
        ELSE IF ~tiles[tile[1]].is_passable THEN "Tile is not passable"
        ELSE ""

\* A move that spends a movement point.
MovedSpendingMovementPoint(ch, q, r) ==
    [ch EXCEPT !.position_q = q, !.position_r = r, !.status = "idle",
               !.movement_points = IF @ > 0 THEN @ - 1 ELSE 0]

\* The character row move saves: position and status are assigned.
Moved(ch, q, r) == [ch EXCEPT !.position_q = q, !.position_r = r, !.status = "idle"]

\* move with the assignment and save placed before the is_passable test.
MoveSavingBeforeCheck(c, q, r) ==
    /\ VisibleCharacter(characters, c) /\ q # None /\ r # None
    /\ MoveErrorIgnoringPassable(characters[c], q[1], r[1]) = ""
    /\ characters' = [characters EXCEPT ![c] = Moved(@, q[1], r[1])]
    /\ last' = Response("move", c, <<q, r>>,
                        IF MoveError(characters[c], q[1], r[1]) # ""
                        THEN HTTP_400_BAD_REQUEST ELSE HTTP_200_OK,
                        MoveError(characters[c], q[1], r[1]))
    /\ UNCHANGED <<catalog, players, games, tiles, map_items, interactables, reqs,
                   startOks, lootOks, interactOks>>

\* POST characters/{c}/move {q, r}; q and r are None when the key is missing.
Move(c, q, r) ==
    /\ IF ~VisibleCharacter(characters, c)
       THEN /\ last' = Response("move", c, <<q, r>>, HTTP_404_NOT_FOUND, "Not found.")
            /\ UNCHANGED characters
       ELSE IF q = None \/ r = None
       THEN /\ last' = Response("move", c, <<q, r>>, HTTP_400_BAD_REQUEST,
                                "q and r coordinates are required")
            /\ UNCHANGED characters
       ELSE IF MoveError(characters[c], q[1], r[1]) # ""
       THEN /\ last' = Response("move", c, <<q, r>>, HTTP_400_BAD_REQUEST,
                                MoveError(characters[c], q[1], r[1]))
            /\ UNCHANGED characters
       ELSE /\ characters' = [characters EXCEPT ![c] = Moved(@, q[1], r[1])]
            /\ last' = Response("move", c, <<q, r>>, HTTP_200_OK, "")
    /\ UNCHANGED <<catalog, players, games, tiles, map_items, interactables, reqs,
                   startOks, lootOks, interactOks>>

\* CharacterViewSet.loot, the query: the map items with this primary key in the
\* character's game, at the character's position, still available.
LootMatchesUnlockedOnly(items, ch, item_id) ==
    {m \in DOMAIN items :
        /\ m = item_id
        /\ items[m].game = ch.game
        /\ items[m].position_q = ch.position_q
        /\ items[m].position_r = ch.position_r
        /\ items[m].is_available
        /\ ~items[m].is_locked}
LootMatches(items, ch, item_id) ==
    {m \in DOMAIN items :
        /\ m = item_id
        /\ items[m].game = ch.game
        /\ items[m].position_q = ch.position_q
        /\ items[m].position_r = ch.position_r
        /\ items[m].is_available}

\* The inventory entry loot appends.
InventoryEntry(item) ==
    [item_id |-> item.item_id, item_type |-> item.item_type,
     quantity |-> item.quantity, looted_at |-> "now"]

\* character.inventory.append(...); character.save(): the whole row is written.
LootedWithoutAppend(ch, item) == ch
Looted(ch, item) == [ch EXCEPT !.inventory = Append(@, InventoryEntry(item))]

\* map_item.is_available = False; collected_at; collected_by; map_item.save().
CollectedStillAvailable(item, c) ==
    [item EXCEPT !.collected_at = Some("now"), !.collected_by = Some(c)]
Collected(item, c) ==
    [item EXCEPT !.is_available = FALSE, !.collected_at = Some("now"),
                 !.collected_by = Some(c)]

\* POST characters/{c}/loot {item_id}; item_id is None when the key is missing.
Loot(c, item_id) ==
    /\ IF ~VisibleCharacter(characters, c)
       THEN /\ last' = Response("loot", c, item_id, HTTP_404_NOT_FOUND, "Not found.")
            /\ UNCHANGED <<characters, map_items, lootOks>>
       ELSE IF item_id = None \/ item_id = Some(0)
       THEN /\ last' = Response("loot", c, item_id, HTTP_400_BAD_REQUEST,
                                "item_id is required")
            /\ UNCHANGED <<characters, map_items, lootOks>>
       ELSE LET found == First(LootMatches(map_items, characters[c], item_id[1]))
            IN  IF found = None
                THEN /\ last' = Response("loot", c, item_id, HTTP_404_NOT_FOUND,
                                         "Item not found at this position")
                     /\ UNCHANGED <<characters, map_items, lootOks>>
                ELSE /\ Len(characters[c].inventory) < MaxInventory
                     /\ characters' = [characters EXCEPT
                                          ![c] = Looted(@, map_items[found[1]])]
                     /\ map_items' = [map_items EXCEPT
                                          ![found[1]] = Collected(@, c)]
                     /\ lootOks' = [lootOks EXCEPT ![found[1]] = @ + 1]
                     /\ last' = Response("loot", c, item_id, HTTP_200_OK, "")
    /\ UNCHANGED <<catalog, players, games, tiles, interactables, reqs, startOks, interactOks>>

\* The payloads a spawn draws its item columns from.
ItemKinds ==
    {[item_type |-> "weapon", item_id |-> "sword-1", quantity |-> 1, is_locked |-> FALSE],
     [item_type |-> "potion", item_id |-> "potion-7", quantity |-> 3, is_locked |-> TRUE]}

\* The row MapItemCreateSerializer inserts: is_available is not a field of the
\* create serializer and takes the model's default.
NewMapItem(game, q, r, kind) ==
    [game |-> game, item_type |-> kind.item_type, item_id |-> kind.item_id,
     position_q |-> q, position_r |-> r, quantity |-> kind.quantity,
     is_available |-> TRUE, is_locked |-> kind.is_locked,
     collected_at |-> None, collected_by |-> None]

\* POST map-items (spawn): MapItemCreateSerializer.validate wants a tile there.
MapItemCreate(game, q, r, kind) ==
    /\ Len(map_items) < MaxMapItems
    /\ IF ~Exists(games, game)
       THEN /\ last' = Response("map_item_create", 0, <<game, q, r>>,
                                HTTP_400_BAD_REQUEST, "object does not exist.")
            /\ UNCHANGED <<map_items, lootOks>>
       ELSE IF TilesAt(game, q, r) = {}
       THEN /\ last' = Response("map_item_create", 0, <<game, q, r>>,
                                HTTP_400_BAD_REQUEST, "Item must be placed on a valid tile")
            /\ UNCHANGED <<map_items, lootOks>>
       ELSE /\ map_items' = Append(map_items, NewMapItem(game, q, r, kind))
            /\ lootOks' = Append(lootOks, 0)
            /\ last' = Response("map_item_create", Len(map_items) + 1, <<game, q, r>>,
                                HTTP_201_CREATED, "")
    /\ UNCHANGED <<catalog, players, games, tiles, characters, interactables, reqs, startOks, interactOks>>

\* MapItemSerializer (update, partial_update): is_available is a writable
\* field; collected_at and collected_by are read-only.
MapItemWritten(item, is_available) == [item EXCEPT !.is_available = is_available]

\* PATCH map-items/{m} {is_available}.
MapItemPartialUpdate(m, is_available) ==
    /\ IF ~Exists(map_items, m)
       THEN /\ last' = Response("map_item_partial_update", m, is_available,
                                HTTP_404_NOT_FOUND, "Not found.")
            /\ UNCHANGED map_items
       ELSE /\ map_items' = [map_items EXCEPT ![m] = MapItemWritten(@, is_available)]
            /\ last' = Response("map_item_partial_update", m, is_available,
                                HTTP_200_OK, "")
    /\ UNCHANGED <<catalog, players, games, tiles, characters, interactables, reqs,
                   startOks, lootOks, interactOks>>

\* PUT map-items/{m}: the required columns are sent back as stored, with
\* is_available.
MapItemUpdate(m, is_available) ==
    /\ IF ~Exists(map_items, m)
       THEN /\ last' = Response("map_item_update", m, is_available,
                                HTTP_404_NOT_FOUND, "Not found.")
            /\ UNCHANGED map_items
       ELSE /\ map_items' = [map_items EXCEPT ![m] = MapItemWritten(@, is_available)]
            /\ last' = Response("map_item_update", m, is_available,
                                HTTP_200_OK, "")
    /\ UNCHANGED <<catalog, players, games, tiles, characters, interactables, reqs,
                   startOks, lootOks, interactOks>>

CharacterStatuses == {"idle", "moving", "looting", "interacting", "in_combat", "dead"}

\* PATCH characters/{c} {status}: CharacterUpdateSerializer, status a writable
\* choice field; get_object excludes dead characters.
CharacterPartialUpdate(c, status) ==
    /\ IF ~VisibleCharacter(characters, c)
       THEN /\ last' = Response("character_partial_update", c, status,
                                HTTP_404_NOT_FOUND, "Not found.")
            /\ UNCHANGED characters
       ELSE IF status \notin CharacterStatuses
       THEN /\ last' = Response("character_partial_update", c, status,
                                HTTP_400_BAD_REQUEST, "is not a valid choice.")
            /\ UNCHANGED characters
       ELSE /\ characters' = [characters EXCEPT ![c].status = status]
            /\ last' = Response("character_partial_update", c, status, HTTP_200_OK, "")
    /\ UNCHANGED <<catalog, players, games, tiles, map_items, interactables, reqs,
                   startOks, lootOks, interactOks>>

(***************************************************************************)
(* The world the character specifications start from: every game active,   *)
(* a map per game, the characters standing on tiles of their games.        *)
(***************************************************************************)
ActiveGame == [NewGame(MaxPlayersInput) EXCEPT !.status = "active",
                                               !.started_at = Some("now")]

\* The map: an odd game lacks the tile (MaxCoord, MaxCoord) and its tiles with
\* q > r are impassable; an even game lacks (0, 0) and its tiles with q < r
\* are impassable.
MapCells ==
    {<<g, q, r>> \in (1..NumGames) \X Coords \X Coords :
        IF g % 2 = 1 THEN ~(q = MaxCoord /\ r = MaxCoord) ELSE ~(q = 0 /\ r = 0)}

TileRow(cell) ==
    [game |-> cell[1], q |-> cell[2], r |-> cell[3],
     is_passable |-> IF cell[1] % 2 = 1 THEN cell[2] <= cell[3] ELSE cell[2] >= cell[3]]

\* The tile rows of a set of cells, in the order (game, q, r) of their creation.
RECURSIVE TileRows(_)
TileRows(cells) ==
    IF cells = {} THEN <<>>
    ELSE LET c == CHOOSE x \in cells : \A y \in cells :
                     \/ x[1] < y[1]
                     \/ (x[1] = y[1] /\ x[2] < y[2])
                     \/ (x[1] = y[1] /\ x[2] = y[2] /\ x[3] <= y[3])
         IN  <<TileRow(c)>> \o TileRows(cells \ {c})

InitialTiles == TileRows(MapCells)

\* The players of the worlds below: player g is user g's player in game g.
InitialPlayers == [g \in 1..NumGames |-> NewPlayer(g, g, Red)]

(***************************************************************************)
(* Tiles: create, update and partial_update, served concurrently.          *)
(* get_object() reads the tile row, is_valid() runs the validators against *)
(* the table, save() inserts or writes the request's copy of the row; the  *)
(* database checks unique_together (game, q, r) at every write.            *)
(***************************************************************************)
\* HexTile.objects.filter(game=game, q=q, r=r) on values of data.get(...): a
\* field the request omits is None and matches no row.
TilesMatching(rows, game, q, r) ==
    IF game = None \/ q = None \/ r = None THEN {}
    ELSE {t \in DOMAIN rows :
             rows[t].game = game[1] /\ rows[t].q = q[1] /\ rows[t].r = r[1]}

\* HexTileSerializer.validate: TRUE when it raises.
HexTileValidateFails(rows, instance, data) ==
    IF instance # None
    THEN TilesMatching(rows, data.game, data.q, data.r) \ {instance[1]} # {}
    ELSE TilesMatching(rows, data.game, data.q, data.r) # {}

\* The row save() writes: the submitted fields over the instance's.
TileWritten(row, data) ==
    [row EXCEPT !.game = IF data.game = None THEN @ ELSE data.game[1],
                !.q = IF data.q = None THEN @ ELSE data.q[1],
                !.r = IF data.r = None THEN @ ELSE data.r[1]]

\* unique_together (game, q, r): another row already holds the key of `row`.
\* The serializer derives its unique-together validator from it and the
\* database refuses the write with IntegrityError.
UniqueTileNeverViolated(rows, pk, row) == FALSE
UniqueTileViolated(rows, pk, row) ==
    \E t \in DOMAIN rows :
        t # pk /\ rows[t].game = row.game /\ rows[t].q = row.q /\ rows[t].r = row.r

NewTileRequest ==
    [pc |-> "new", op |-> "", pk |-> 0, data |-> None, row |-> None, status |-> 0]

TileData(game, q, r) == [game |-> game, q |-> q, r |-> r]

\* POST hex-tiles/ {game, q, r, ...}: is_valid().
TileCreateValidate(n, game, q, r) ==
    /\ reqs[n].pc = "new"
    /\ LET data == TileData(Some(game), Some(q), Some(r))
           row == [game |-> game, q |-> q, r |-> r, is_passable |-> TRUE]
       IN  IF UniqueTileViolated(tiles, 0, row) \/ HexTileValidateFails(tiles, None, data)
           THEN /\ reqs' = [reqs EXCEPT ![n] =
                               Finished([@ EXCEPT !.op = "tile_create", !.data = data],
                                        HTTP_400_BAD_REQUEST)]
                /\ last' = Response("tile_create", 0, data, HTTP_400_BAD_REQUEST,
                                    "A tile already exists at these coordinates")
           ELSE /\ reqs' = [reqs EXCEPT ![n] =
                               [@ EXCEPT !.pc = "save", !.op = "tile_create",
                                         !.data = data, !.row = Some(row)]]
                /\ UNCHANGED last
    /\ UNCHANGED <<catalog, games, players, tiles, characters, map_items, interactables,
                   startOks, lootOks, interactOks>>

\* PUT or PATCH hex-tiles/{pk}: get_object() and is_valid().  A PUT carries
\* game, q and r; a PATCH any of them.
TileUpdateValidate(n, pk, game, q, r) ==
    /\ reqs[n].pc = "new"
    /\ LET data == TileData(game, q, r)
           op == IF game # None /\ q # None /\ r # None
                 THEN "tile_update" ELSE "tile_partial_update"
       IN  IF ~Exists(tiles, pk)
           THEN /\ reqs' = [reqs EXCEPT ![n] =
                               Finished([@ EXCEPT !.op = op, !.pk = pk, !.data = data],
                                        HTTP_404_NOT_FOUND)]
                /\ last' = Response(op, pk, data, HTTP_404_NOT_FOUND, "Not found.")
           ELSE IF \/ UniqueTileViolated(tiles, pk, TileWritten(tiles[pk], data))
                   \/ HexTileValidateFails(tiles, Some(pk), data)
           THEN /\ reqs' = [reqs EXCEPT ![n] =
                               Finished([@ EXCEPT !.op = op, !.pk = pk, !.data = data],
                                        HTTP_400_BAD_REQUEST)]
                /\ last' = Response(op, pk, data, HTTP_400_BAD_REQUEST,
                                    "A tile already exists at these coordinates")
           ELSE /\ reqs' = [reqs EXCEPT ![n] =
                               [@ EXCEPT !.pc = "save", !.op = op, !.pk = pk, !.data = data,
                                         !.row = Some(TileWritten(tiles[pk], data))]]
                /\ UNCHANGED last
    /\ UNCHANGED <<catalog, games, players, tiles, characters, map_items, interactables,
                   startOks, lootOks, interactOks>>

\* serializer.save(): the insert or the write of the row, refused by the
\* database when it breaks unique_together.
TileSave(n) ==
    /\ reqs[n].pc = "save"
    /\ LET row == reqs[n].row[1]
           pk == reqs[n].pk
       IN  IF UniqueTileViolated(tiles, pk, row)
           THEN /\ reqs' = [reqs EXCEPT ![n] =
                               Finished(@, HTTP_500_INTERNAL_SERVER_ERROR)]
                /\ last' = Response(reqs[n].op, pk, reqs[n].data,
                                    HTTP_500_INTERNAL_SERVER_ERROR, "IntegrityError")
                /\ UNCHANGED tiles
           ELSE IF reqs[n].op = "tile_create"
           THEN /\ tiles' = Append(tiles, row)
                /\ reqs' = [reqs EXCEPT ![n] = Finished(@, HTTP_201_CREATED)]
                /\ last' = Response(reqs[n].op, pk, reqs[n].data, HTTP_201_CREATED, "")
           ELSE /\ tiles' = [tiles EXCEPT ![pk] = row]
                /\ reqs' = [reqs EXCEPT ![n] = Finished(@, HTTP_200_OK)]
                /\ last' = Response(reqs[n].op, pk, reqs[n].data, HTTP_200_OK, "")
    /\ UNCHANGED <<catalog, games, players, characters, map_items, interactables,
                   startOks, lootOks, interactOks>>

OptionalCoords == {None} \cup {Some(x) : x \in Coords}

\* The maps of the games, with NumRequests tile requests about to arrive.
InitTileRace ==
    /\ games = [g \in 1..NumGames |-> ActiveGame]
    /\ players = InitialPlayers
    /\ catalog = <<>>
    /\ tiles = InitialTiles
    /\ characters = <<>>
    /\ map_items = <<>>
    /\ interactables = <<>>
    /\ reqs = [n \in 1..NumRequests |-> NewTileRequest]
    /\ last = NoRequest
    /\ startOks = [g \in 1..NumGames |-> 0]
    /\ lootOks = <<>>
    /\ interactOks = <<>>

NextTileRace ==
    \/ \E n \in DOMAIN reqs, g \in 1..NumGames, q \in Coords, r \in Coords :
          TileCreateValidate(n, g, q, r)
    \/ \E n \in DOMAIN reqs, pk \in 0..Len(tiles),
          g \in {None} \cup {Some(x) : x \in 1..NumGames},
          q \in OptionalCoords, r \in OptionalCoords :
          TileUpdateValidate(n, pk, g, q, r)
    \/ \E n \in DOMAIN reqs : TileSave(n)

\* Tile create, update and partial_update requests served concurrently.
SpecTileRace == InitTileRace /\ [][NextTileRace]_vars

TilesUnique ==
    \A t1 \in DOMAIN tiles, t2 \in DOMAIN tiles :
        (tiles[t1].game = tiles[t2].game /\ tiles[t1].q = tiles[t2].q
            /\ tiles[t1].r = tiles[t2].r) => t1 = t2

\* Request n is a create that returns in this step.
TileCreateReturns(n) ==
    /\ reqs[n].pc # "done" /\ reqs'[n].pc = "done" /\ reqs'[n].op = "tile_create"

\* C14: under any interleaving of tile create, update and partial_update
\* requests (game, q, r) is unique among the tiles in every state, and a
\* create at coordinates occupied in that game fails and adds no row.
C14_TileCoordinatesUnique ==
    /\ []TilesUnique
    /\ [][\A n \in DOMAIN reqs :
            (/\ TileCreateReturns(n)
             /\ TilesMatching(tiles, reqs'[n].data.game, reqs'[n].data.q,
                              reqs'[n].data.r) # {}) =>
                /\ reqs'[n].status \in {HTTP_400_BAD_REQUEST, HTTP_500_INTERNAL_SERVER_ERROR}
                /\ tiles' = tiles]_vars

\* C14 witness: a create and an update that both passed validation for one
\* free cell; the first write took the cell, the second was refused.
C14_Witness ==
    \E n1 \in DOMAIN reqs, n2 \in DOMAIN reqs :
        /\ n1 # n2
        /\ reqs[n1].pc = "done" /\ reqs[n2].pc = "done"
        /\ reqs[n1].op = "tile_create" /\ reqs[n2].op = "tile_partial_update"
        /\ reqs[n1].row # None /\ reqs[n2].row # None
        /\ reqs[n1].row[1].game = reqs[n2].row[1].game
        /\ reqs[n1].row[1].q = reqs[n2].row[1].q
        /\ reqs[n1].row[1].r = reqs[n2].row[1].r
        /\ IsOk(reqs[n2])
        /\ reqs[n1].status = HTTP_500_INTERNAL_SERVER_ERROR
        /\ Len(tiles) = Len(InitialTiles)

\* Defaults of the Character model's columns.
DefaultMaxHealth == 100
DefaultMaxStamina == 100
DefaultMaxMovementPoints == 3
DefaultInventoryCapacity == 20

\* CharacterCreateSerializer.create: the row inserted.  health, stamina and
\* movement_points are set from validated_data.get('max_...', default); a
\* max value the request omits (None) takes the column's default.
CreatedCharacterZeroHealth(game, owner, q, r, max_health, max_stamina, max_movement_points, capacity) ==
    [game |-> game, owner |-> owner, position_q |-> q, position_r |-> r,
     status |-> "idle", movement_path |-> <<>>, inventory |-> <<>>,
     inventory_capacity |-> capacity,
     health |-> 0,
     max_health |-> IF max_health = None THEN DefaultMaxHealth ELSE max_health[1],
     stamina |-> IF max_stamina = None THEN 100 ELSE max_stamina[1],
     max_stamina |-> IF max_stamina = None THEN DefaultMaxStamina ELSE max_stamina[1],
     movement_points |-> IF max_movement_points = None THEN 3 ELSE max_movement_points[1],
     max_movement_points |-> IF max_movement_points = None THEN DefaultMaxMovementPoints
                             ELSE max_movement_points[1]]
CreatedCharacter(game, owner, q, r, max_health, max_stamina, max_movement_points, capacity) ==
    [game |-> game, owner |-> owner, position_q |-> q, position_r |-> r,
     status |-> "idle", movement_path |-> <<>>, inventory |-> <<>>,
     inventory_capacity |-> capacity,
     health |-> IF max_health = None THEN 100 ELSE max_health[1],
     max_health |-> IF max_health = None THEN DefaultMaxHealth ELSE max_health[1],
     stamina |-> IF max_stamina = None THEN 100 ELSE max_stamina[1],
     max_stamina |-> IF max_stamina = None THEN DefaultMaxStamina ELSE max_stamina[1],
     movement_points |-> IF max_movement_points = None THEN 3 ELSE max_movement_points[1],
     max_movement_points |-> IF max_movement_points = None THEN DefaultMaxMovementPoints
                             ELSE max_movement_points[1]]

\* A character of the game's own player, created with the default stats.
NewCharacter(game, q, r, capacity) ==
    CreatedCharacter(game, game, q, r, None, None, None, capacity)

InitWorld ==
    /\ games = [g \in 1..NumGames |-> ActiveGame]
    /\ players = InitialPlayers
    /\ catalog = <<>>
    /\ tiles = InitialTiles
    /\ characters = [c \in 1..NumCharacters |->
                         NewCharacter(1, 0, (c - 1) % (MaxCoord + 1),
                                      IF c = 1 THEN 0 ELSE DefaultInventoryCapacity)]
    /\ map_items = <<>>
    /\ interactables = <<>>
    /\ reqs = <<>>
    /\ last = NoRequest
    /\ startOks = [g \in 1..NumGames |-> 0]
    /\ lootOks = <<>>
    /\ interactOks = <<>>

ItemIdInputs == {None} \cup {Some(m) : m \in 0..MaxMapItems}

MoveRequest == \E c \in 1..NumCharacters, q \in CoordInputs, r \in CoordInputs : Move(c, q, r)
LootRequest == \E c \in 1..NumCharacters, i \in ItemIdInputs : Loot(c, i)

NextLoot ==
    \/ MoveRequest
    \/ LootRequest
    \/ \E g \in 1..NumGames, q \in Coords, r \in Coords, k \in ItemKinds :
          MapItemCreate(g, q, r, k)
    \/ \E m \in 1..MaxMapItems, a \in BOOLEAN : MapItemPartialUpdate(m, a)
    \/ \E m \in 1..MaxMapItems, a \in BOOLEAN : MapItemUpdate(m, a)
    \/ \E c \in 1..NumCharacters, s \in {"moving", "dead", "bogus"} :
          CharacterPartialUpdate(c, s)

\* Characters and map items: move, loot, spawn, map-item update, character
\* update, one request at a time.
SpecLoot == InitWorld /\ [][NextLoot]_vars

(***************************************************************************)
(* Characters: create, update, partial_update and list.                    *)
(***************************************************************************)
\* CharacterCreateSerializer.validate: the error it raises, "" when none.
CharacterCreateError(game, owner, q, r) ==
    IF players[owner].game # game
    THEN "Owner must belong to the same game"
    ELSE IF TilesAt(game, q, r) = {}
    THEN "Starting position must be a valid tile"
    ELSE ""

\* POST characters/ {game, owner, position_q, position_r, max_health,
\* max_stamina, ...}; a max value the request omits is None.
CharacterCreate(game, owner, q, r, max_health, max_stamina) ==
    /\ (/\ Exists(games, game) /\ Exists(players, owner)
        /\ CharacterCreateError(game, owner, q, r) = "") => Len(characters) < NumCharacters
    /\ LET arg == <<game, owner, q, r, max_health, max_stamina>>
       IN  IF ~Exists(games, game) \/ ~Exists(players, owner)
           THEN /\ last' = Response("character_create", 0, arg, HTTP_400_BAD_REQUEST,
                                    "Invalid pk")
                /\ UNCHANGED characters
           ELSE IF CharacterCreateError(game, owner, q, r) # ""
           THEN /\ last' = Response("character_create", 0, arg, HTTP_400_BAD_REQUEST,
                                    CharacterCreateError(game, owner, q, r))
                /\ UNCHANGED characters
           ELSE /\ characters' =
                      Append(characters,
                             CreatedCharacter(game, owner, q, r, max_health, max_stamina,
                                              None, DefaultInventoryCapacity))
                /\ last' = Response("character_create", Len(characters) + 1, arg,
                                    HTTP_201_CREATED, "")
    /\ UNCHANGED <<catalog, games, players, tiles, map_items, interactables, reqs,
                   startOks, lootOks, interactOks>>

\* CharacterUpdateSerializer.validate_health / validate_stamina: TRUE when the
\* submitted value is refused.
validate_healthNever(instance, value) == FALSE
validate_health(instance, value) == value > instance.max_health
validate_stamina(instance, value) == value > instance.max_stamina

\* The fields of a PUT or PATCH of a character that the model follows; a
\* field the request omits is None.
CharacterData(health, stamina, status, position) ==
    [health |-> health, stamina |-> stamina, status |-> status, position |-> position]

\* The error of CharacterUpdateSerializer's field validation, "" when none.
\* position_q and position_r have no default: a PUT must carry them.
CharacterUpdateError(instance, data, partial) ==
    IF ~partial /\ data.position = None
    THEN "This field is required."
    ELSE IF data.status # None /\ data.status[1] \notin CharacterStatuses
    THEN "is not a valid choice."
    ELSE IF data.health # None /\ validate_health(instance, data.health[1])
    THEN "Health cannot exceed max_health"
    ELSE IF data.stamina # None /\ validate_stamina(instance, data.stamina[1])
    THEN "Stamina cannot exceed max_stamina"
    ELSE ""

\* The row serializer.save() writes: the submitted fields over the instance's.
CharacterWritten(row, data) ==
    [row EXCEPT !.health = IF data.health = None THEN @ ELSE data.health[1],
                !.stamina = IF data.stamina = None THEN @ ELSE data.stamina[1],
                !.status = IF data.status = None THEN @ ELSE data.status[1],
                !.position_q = IF data.position = None THEN @ ELSE data.position[1][1],
                !.position_r = IF data.position = None THEN @ ELSE data.position[1][2]]

\* PUT (partial = FALSE) or PATCH (partial = TRUE) characters/{c}.
CharacterUpdate(c, data, partial) ==
    /\ LET op == IF partial THEN "character_partial_update" ELSE "character_update"
       IN  IF ~VisibleCharacter(characters, c)
           THEN /\ last' = Response(op, c, data, HTTP_404_NOT_FOUND, "Not found.")
                /\ UNCHANGED characters
           ELSE IF CharacterUpdateError(characters[c], data, partial) # ""
           THEN /\ last' = Response(op, c, data, HTTP_400_BAD_REQUEST,
                                    CharacterUpdateError(characters[c], data, partial))
                /\ UNCHANGED characters
           ELSE /\ characters' = [characters EXCEPT ![c] = CharacterWritten(@, data)]
                /\ last' = Response(op, c, data, HTTP_200_OK, "")
    /\ UNCHANGED <<catalog, games, players, tiles, map_items, interactables, reqs,
                   startOks, lootOks, interactOks>>

\* CharacterViewSet.get_queryset with no filter: the characters a list shows.
ListedEveryone(rows) == DOMAIN rows
Listed(rows) == {c \in DOMAIN rows : rows[c].status # "dead"}

\* GET characters/.
CharacterList ==
    /\ last' = Response("character_list", 0, Listed(characters), HTTP_200_OK, "")
    /\ UNCHANGED <<catalog, games, players, tiles, characters, map_items, interactables, reqs,
                   startOks, lootOks, interactOks>>

\* Stats a client submits: at and one above the maxima a create is given.
SmallMaxHealth == 50
SmallMaxStamina == 60
MaxStatInputs == {<<None, None>>, <<Some(SmallMaxHealth), Some(SmallMaxStamina)>>}

PatchInputs ==
    {CharacterData(Some(SmallMaxHealth + 1), None, None, None),
     CharacterData(None, Some(SmallMaxStamina + 1), None, None),
     CharacterData(None, None, Some("dead"), None),
     CharacterData(Some(SmallMaxHealth), Some(SmallMaxStamina + 1), Some("moving"), None)}
PutInputs ==
    {CharacterData(Some(SmallMaxHealth + 1), Some(SmallMaxStamina), Some("moving"),
                   Some(<<0, 0>>)),
     CharacterData(None, None, Some("dead"), None)}

\* The world before any character exists: the games active, their players
\* joined, the maps laid out, one item spawned on tile (0, 0) of game 1.
CharacterWorld ==
    /\ games = [g \in 1..NumGames |-> ActiveGame]
    /\ players = InitialPlayers
    /\ catalog = <<>>
    /\ tiles = InitialTiles
    /\ characters = <<>>
    /\ map_items = <<NewMapItem(1, 0, 0, CHOOSE k \in ItemKinds : ~k.is_locked)>>
    /\ interactables = <<>>
    /\ reqs = <<>>
    /\ last = NoRequest
    /\ startOks = [g \in 1..NumGames |-> 0]
    /\ lootOks = <<0>>
    /\ interactOks = <<>>

CharacterCreateRequest ==
    \E g \in 1..NumGames, o \in 1..NumGames, r \in Coords, mx \in MaxStatInputs :
        CharacterCreate(g, o, 0, r, mx[1], mx[2])

NextCharacter ==
    \/ CharacterCreateRequest
    \/ \E c \in 1..NumCharacters, d \in PatchInputs : CharacterUpdate(c, d, TRUE)
    \/ \E c \in 1..NumCharacters, d \in PutInputs : CharacterUpdate(c, d, FALSE)
    \/ \E c \in 1..NumCharacters, r \in Coords : Move(c, Some(0), Some(r))
    \/ \E c \in 1..NumCharacters : Loot(c, Some(1))
    \/ CharacterList

\* Characters: create, update, partial_update, move, loot and list, one
\* request at a time.
SpecCharacter == CharacterWorld /\ [][NextCharacter]_vars

\* The step just taken answered a character create with these arguments.
CreateStep(g, o, q, r, mx) ==
    /\ last' # last /\ last'.op = "character_create"
    /\ last'.arg = <<g, o, q, r, mx[1], mx[2]>>

\* The step appended one character: idle, in game g at (q, r), owned by o,
\* its health, stamina and movement points at their maxima.
CreatedAtMax(g, o, q, r, mx) ==
    /\ Len(characters') = Len(characters) + 1
    /\ SubSeq(characters', 1, Len(characters)) = characters
    /\ LET new == characters'[Len(characters')]
       IN  /\ new.game = g /\ new.owner = o
           /\ new.position_q = q /\ new.position_r = r
           /\ new.status = "idle"
           /\ mx[1] # None => new.max_health = mx[1][1]
           /\ mx[2] # None => new.max_stamina = mx[2][1]
           /\ new.health = new.max_health
           /\ new.stamina = new.max_stamina
           /\ new.movement_points = new.max_movement_points

\* C15: character create fails unless the owner's game is the given game and
\* fails unless a tile of that game exists at the position; with both (the
\* tile passable or not) it succeeds, and the new character is idle with
\* health, stamina and movement points equal to their maxima.
C15_CreateChecksOwnerAndTile ==
    [][\A g \in DOMAIN games, o \in DOMAIN players, q \in Coords, r \in Coords,
          mx \in MaxStatInputs :
          CreateStep(g, o, q, r, mx) =>
              IF players[o].game = g /\ TilesAt(g, q, r) # {}
              THEN IsOk(last') /\ CreatedAtMax(g, o, q, r, mx)
              ELSE IsError(last') /\ characters' = characters]_vars

\* C15 witness: a character was created on an impassable tile with the
\* maxima the request gave.
C15_Witness ==
    /\ last.op = "character_create" /\ IsOk(last)
    /\ LET new == characters[last.target]
       IN  /\ ~PassableTileAt(new.game, new.position_q, new.position_r)
           /\ TilesAt(new.game, new.position_q, new.position_r) # {}
           /\ new.max_health = SmallMaxHealth /\ new.health = SmallMaxHealth
           /\ new.max_stamina = SmallMaxStamina /\ new.stamina = SmallMaxStamina

WithinMaxima ==
    \A c \in DOMAIN characters :
        /\ characters[c].health <= characters[c].max_health
        /\ characters[c].stamina <= characters[c].max_stamina

\* The step just taken answered an update or partial_update of character c.
CharacterUpdateStep(c) ==
    /\ last' # last /\ last'.target = c
    /\ last'.op \in {"character_update", "character_partial_update"}

\* C16: under create, update, partial_update, move and loot every character
\* keeps health <= max_health and stamina <= max_stamina; an update that
\* submits a larger health or stamina fails and changes nothing; no
\* operation changes max_health or max_stamina of an existing character.
C16_HealthWithinMax ==
    /\ []WithinMaxima
    /\ [][\A c \in DOMAIN characters :
            /\ characters'[c].max_health = characters[c].max_health
            /\ characters'[c].max_stamina = characters[c].max_stamina
            /\ (/\ CharacterUpdateStep(c)
                /\ characters[c].status # "dead"
                /\ \/ /\ last'.arg.health # None
                      /\ last'.arg.health[1] > characters[c].max_health
                   \/ /\ last'.arg.stamina # None
                      /\ last'.arg.stamina[1] > characters[c].max_stamina) =>
                  IsError(last') /\ characters' = characters]_vars

\* C16 witness: an update whose health is one above max_health was refused,
\* and the character's health still equals its maximum.
C16_Witness ==
    /\ last.op = "character_update" /\ last.status = HTTP_400_BAD_REQUEST
    /\ last.error = "Health cannot exceed max_health"
    /\ last.arg.health = Some(characters[last.target].max_health + 1)
    /\ characters[last.target].health = characters[last.target].max_health

\* The step just taken answered a character operation on c.
CharacterOperationStep(c) ==
    /\ last' # last /\ last'.target = c
    /\ last'.op \in {"character_update", "character_partial_update", "move", "loot"}

\* The listing just answered shows no dead character.
NoDeadListed ==
    last.op = "character_list" => \A c \in last.arg : characters[c].status # "dead"

\* C17: a character that is not dead becomes dead by an update of its status
\* to dead; a dead character is never changed again and every update,
\* partial_update, move and loot on it fails; no listing shows a dead
\* character.
C17_DeadIsTerminal ==
    /\ []NoDeadListed
    /\ [][\A c \in DOMAIN characters :
            /\ (/\ CharacterUpdateStep(c) /\ characters[c].status # "dead"
                /\ last'.arg = CharacterData(None, None, Some("dead"), None)
                /\ last'.op = "character_partial_update") =>
                  IsOk(last') /\ characters'[c].status = "dead"
            /\ characters[c].status = "dead" =>
                  /\ characters'[c] = characters[c]
                  /\ CharacterOperationStep(c) => IsError(last')]_vars

\* C17 witness: a character that had looted and moved died, and its move to
\* a passable tile of its game was then refused.
C17_Witness ==
    /\ last.op = "move" /\ last.status = HTTP_404_NOT_FOUND
    /\ Exists(characters, last.target)
    /\ LET ch == characters[last.target]
       IN  /\ ch.status = "dead"
           /\ ch.inventory # <<>>
           /\ PassableTileAt(ch.game, last.arg[1][1], last.arg[2][1])
           /\ <<ch.position_q, ch.position_r>> # <<last.arg[1][1], last.arg[2][1]>>


\* Map items as spawn leaves them: available, never collected.
SpawnedItems ==
    {NewMapItem(cell[1], cell[2], cell[3], k) : cell \in MapCells, k \in ItemKinds}

\* The world after some spawns and character creations: the characters stand
\* on tiles of game 1 and MaxMapItems items lie on the maps.
LootWorld ==
    /\ games = [g \in 1..NumGames |-> ActiveGame]
    /\ players = InitialPlayers
    /\ catalog = <<>>
    /\ tiles = InitialTiles
    /\ \E home \in [1..NumCharacters -> {cell \in MapCells : cell[1] = 1}] :
          characters = [c \in 1..NumCharacters |->
                           NewCharacter(1, home[c][2], home[c][3],
                                        IF c = 1 THEN 0 ELSE DefaultInventoryCapacity)]
    /\ map_items \in [1..MaxMapItems -> SpawnedItems]
    /\ interactables = <<>>
    /\ last = NoRequest
    /\ startOks = [g \in 1..NumGames |-> 0]
    /\ lootOks = [m \in 1..MaxMapItems |-> 0]
    /\ interactOks = <<>>

InitLootMove == LootWorld /\ reqs = <<>>

NextLootMove ==
    \/ MoveRequest
    \/ LootRequest

\* Runs of loot and move requests only, one request at a time.
SpecLootMove == InitLootMove /\ [][NextLootMove]_vars

(***************************************************************************)
(* Claims about move and loot.                                             *)
(***************************************************************************)
\* The step just taken served move(c, q, r).
MoveStep(c, q, r) ==
    last'.op = "move" /\ last'.target = c /\ last'.arg = <<Some(q), Some(r)>>

\* The step just taken served loot(c, m).
LootStep(c, m) ==
    last'.op = "loot" /\ last'.target = c /\ last'.arg = Some(m)

\* C1: for a character that is not dead and supplied q, r, move succeeds iff
\* a passable tile of the character's game lies at (q, r); on success the
\* character stands at (q, r), on failure its position is unchanged.
C1_MoveIffPassableTile ==
    [][\A c \in DOMAIN characters, q \in Coords, r \in Coords :
          (MoveStep(c, q, r) /\ characters[c].status # "dead") =>
              /\ IsOk(last') <=> PassableTileAt(characters[c].game, q, r)
              /\ IsOk(last') =>
                    characters'[c].position_q = q /\ characters'[c].position_r = r
              /\ ~IsOk(last') =>
                    /\ characters'[c].position_q = characters[c].position_q
                    /\ characters'[c].position_r = characters[c].position_r]_vars

\* C1 witness: a move succeeded and took the character off its first tile.
C1_Witness ==
    /\ last.op = "move" /\ IsOk(last)
    /\ characters[last.target].position_q = last.arg[1][1]
    /\ characters[last.target].position_r = last.arg[2][1]
    /\ characters[1].position_r # 0

\* C2: in a run of loot and move requests, once a loot of a map item has
\* succeeded every later loot of that item answers 404 and changes no row.
C2_LootAtMostOnce ==
    [][\A c \in DOMAIN characters, m \in DOMAIN map_items :
          (LootStep(c, m) /\ lootOks[m] >= 1) =>
              /\ last'.status = HTTP_404_NOT_FOUND
              /\ UNCHANGED <<characters, map_items, lootOks>>]_vars

\* C2 witness: a loot of an already looted item was refused while the
\* requesting character stood on the item's tile.
C2_Witness ==
    /\ last.op = "loot" /\ last.status = HTTP_404_NOT_FOUND
    /\ last.arg # None /\ last.arg[1] \in DOMAIN map_items
    /\ lootOks[last.arg[1]] = 1
    /\ VisibleCharacter(characters, last.target)
    /\ map_items[last.arg[1]].game = characters[last.target].game
    /\ map_items[last.arg[1]].position_q = characters[last.target].position_q
    /\ map_items[last.arg[1]].position_r = characters[last.target].position_r

\* The map item m lies available on the tile character c stands on.
Lootable(c, m) ==
    /\ m \in DOMAIN map_items
    /\ map_items[m].game = characters[c].game
    /\ map_items[m].position_q = characters[c].position_q
    /\ map_items[m].position_r = characters[c].position_r
    /\ map_items[m].is_available

\* What a successful loot of m by c leaves behind.
LootEffect(c, m) ==
    /\ Len(characters'[c].inventory) = Len(characters[c].inventory) + 1
    /\ SubSeq(characters'[c].inventory, 1, Len(characters[c].inventory))
          = characters[c].inventory
    /\ LET e == characters'[c].inventory[Len(characters'[c].inventory)]
       IN  /\ e.item_id = map_items[m].item_id
           /\ e.item_type = map_items[m].item_type
           /\ e.quantity = map_items[m].quantity
    /\ ~map_items'[m].is_available
    /\ map_items'[m].collected_by = Some(c)

C4_UnavailableIsTerminal ==
    [][\A m \in DOMAIN map_items :
          ~map_items[m].is_available => ~map_items'[m].is_available]_vars


(***************************************************************************)
(* Concurrent loot requests.  No handler runs in a transaction or takes a  *)
(* lock, so each ORM call is a step of its own: get_object() reads the      *)
(* character row, the filter reads the map item row, character.save()      *)
(* writes the request's copy of the character row and map_item.save() the  *)
(* request's copy of the map item row.                                     *)
(***************************************************************************)
NewRequest ==
    [pc |-> "new", c |-> 0, item_id |-> None, character |-> None,
     found |-> None, item |-> None, status |-> 0]

\* character = self.get_object(); item_id = request.data.get('item_id').
LootGetObject(r, c, item_id) ==
    /\ reqs[r].pc = "new"
    /\ IF ~VisibleCharacter(characters, c)
       THEN /\ reqs' = [reqs EXCEPT ![r] =
                           Finished([@ EXCEPT !.c = c, !.item_id = item_id],
                                    HTTP_404_NOT_FOUND)]
            /\ last' = Response("loot", c, item_id, HTTP_404_NOT_FOUND, "Not found.")
       ELSE IF item_id = None \/ item_id = Some(0)
       THEN /\ reqs' = [reqs EXCEPT ![r] =
                           Finished([@ EXCEPT !.c = c, !.item_id = item_id],
                                    HTTP_400_BAD_REQUEST)]
            /\ last' = Response("loot", c, item_id, HTTP_400_BAD_REQUEST,
                                "item_id is required")
       ELSE /\ reqs' = [reqs EXCEPT ![r] =
                           [@ EXCEPT !.pc = "query", !.c = c, !.item_id = item_id,
                                     !.character = Some(characters[c])]]
            /\ UNCHANGED last
    /\ UNCHANGED <<catalog, players, games, tiles, characters, map_items, interactables,
                   startOks, lootOks, interactOks>>

\* map_item = MapItem.objects.filter(...).first(), with the position of the
\* character row the request read.
LootFind(r) ==
    /\ reqs[r].pc = "query"
    /\ LET found == First(LootMatches(map_items, reqs[r].character[1],
                                      reqs[r].item_id[1]))
       IN  IF found = None
           THEN /\ reqs' = [reqs EXCEPT ![r] = Finished(@, HTTP_404_NOT_FOUND)]
                /\ last' = Response("loot", reqs[r].c, reqs[r].item_id,
                                    HTTP_404_NOT_FOUND, "Item not found at this position")
           ELSE /\ reqs' = [reqs EXCEPT ![r] =
                               [@ EXCEPT !.pc = "save_character", !.found = found,
                                         !.item = Some(map_items[found[1]])]]
                /\ UNCHANGED last
    /\ UNCHANGED <<catalog, players, games, tiles, characters, map_items, interactables,
                   startOks, lootOks, interactOks>>

\* character.inventory.append(...); character.save().
LootSaveCharacter(r) ==
    /\ reqs[r].pc = "save_character"
    /\ Len(reqs[r].character[1].inventory) < MaxInventory
    /\ LET row == Looted(reqs[r].character[1], reqs[r].item[1])
       IN  /\ characters' = [characters EXCEPT ![reqs[r].c] = row]
           /\ reqs' = [reqs EXCEPT ![r] =
                          [@ EXCEPT !.pc = "save_item", !.character = Some(row)]]
    /\ UNCHANGED <<catalog, players, games, tiles, map_items, interactables, last,
                   startOks, lootOks, interactOks>>

\* map_item.is_available = False; ...; map_item.save(); return Response(...).
LootSaveItem(r) ==
    /\ reqs[r].pc = "save_item"
    /\ map_items' = [map_items EXCEPT
                        ![reqs[r].found[1]] = Collected(reqs[r].item[1], reqs[r].c)]
    /\ lootOks' = [lootOks EXCEPT ![reqs[r].found[1]] = @ + 1]
    /\ reqs' = [reqs EXCEPT ![r] = Finished(@, HTTP_200_OK)]
    /\ last' = Response("loot", reqs[r].c, reqs[r].item_id, HTTP_200_OK, "")
    /\ UNCHANGED <<catalog, players, games, tiles, characters, interactables, startOks, interactOks>>

InitLootRace == LootWorld /\ reqs = [r \in 1..NumRequests |-> NewRequest]

NextLootRace ==
    \/ \E r \in 1..NumRequests, c \in 1..NumCharacters, i \in ItemIdInputs :
          LootGetObject(r, c, i)
    \/ \E r \in 1..NumRequests : LootFind(r)
    \/ \E r \in 1..NumRequests : LootSaveCharacter(r)
    \/ \E r \in 1..NumRequests : LootSaveItem(r)

\* NumRequests loot requests served concurrently, their ORM calls interleaved.
SpecLootRace == InitLootRace /\ [][NextLootRace]_vars

\* Requests r1 and r2, by two characters, both found map item m available.
BothPassedCheck(r1, r2, m) ==
    /\ r1 # r2
    /\ reqs[r1].found = Some(m) /\ reqs[r2].found = Some(m)
    /\ reqs[r1].c # reqs[r2].c

HoldsEntryOf(c, m) ==
    \E k \in DOMAIN characters[c].inventory :
        characters[c].inventory[k] = InventoryEntry(map_items[m])

\* C5: when two concurrent loot requests by two characters have both passed
\* the is_available check on one map item, both return success and the item
\* ends up in both inventories.
C5_RaceCollectsTwice ==
    \A r1 \in DOMAIN reqs, r2 \in DOMAIN reqs, m \in DOMAIN map_items :
        (BothPassedCheck(r1, r2, m) /\ reqs[r1].pc = "done" /\ reqs[r2].pc = "done") =>
            /\ reqs[r1].status = HTTP_200_OK /\ reqs[r2].status = HTTP_200_OK
            /\ HoldsEntryOf(reqs[r1].c, m) /\ HoldsEntryOf(reqs[r2].c, m)
            /\ lootOks[m] >= 2

\* C5 witness: one map item has been added to two inventories.
C5_Witness ==
    \E m \in DOMAIN map_items, c1 \in DOMAIN characters, c2 \in DOMAIN characters :
        /\ c1 # c2
        /\ lootOks[m] >= 2
        /\ HoldsEntryOf(c1, m) /\ HoldsEntryOf(c2, m)
        /\ \E r1 \in DOMAIN reqs, r2 \in DOMAIN reqs :
              /\ BothPassedCheck(r1, r2, m)
              /\ reqs[r1].status = HTTP_200_OK /\ reqs[r2].status = HTTP_200_OK

(***************************************************************************)
(* A move served concurrently with loot requests.  get_object() reads the  *)
(* character row, the tile query reads the tile table, save() writes the   *)
(* request's copy of the character row, every column of it.                *)
(***************************************************************************)
\* character = self.get_object(); q, r = request.data.get(...).
MoveGetObject(n, c, q, r) ==
    /\ reqs[n].pc = "move_new"
    /\ IF ~VisibleCharacter(characters, c)
       THEN /\ reqs' = [reqs EXCEPT ![n] =
                           Finished([@ EXCEPT !.c = c, !.q = q, !.r = r],
                                    HTTP_404_NOT_FOUND)]
            /\ last' = Response("move", c, <<q, r>>, HTTP_404_NOT_FOUND, "Not found.")
       ELSE IF q = None \/ r = None
       THEN /\ reqs' = [reqs EXCEPT ![n] =
                           Finished([@ EXCEPT !.c = c, !.q = q, !.r = r],
                                    HTTP_400_BAD_REQUEST)]
            /\ last' = Response("move", c, <<q, r>>, HTTP_400_BAD_REQUEST,
                                "q and r coordinates are required")
       ELSE /\ reqs' = [reqs EXCEPT ![n] =
                           [@ EXCEPT !.pc = "tile", !.c = c, !.q = q, !.r = r,
                                     !.character = Some(characters[c])]]
            /\ UNCHANGED last
    /\ UNCHANGED <<catalog, players, games, tiles, characters, map_items, interactables,
                   startOks, lootOks, interactOks>>

\* tile = HexTile.objects.filter(...).first() and the two tests of it.
MoveFindTile(n) ==
    /\ reqs[n].pc = "tile"
    /\ LET error == MoveError(reqs[n].character[1], reqs[n].q[1], reqs[n].r[1])
       IN  IF error # ""
           THEN /\ reqs' = [reqs EXCEPT ![n] = Finished(@, HTTP_400_BAD_REQUEST)]
                /\ last' = Response("move", reqs[n].c, <<reqs[n].q, reqs[n].r>>,
                                    HTTP_400_BAD_REQUEST, error)
           ELSE /\ reqs' = [reqs EXCEPT ![n].pc = "move_save"]
                /\ UNCHANGED last
    /\ UNCHANGED <<catalog, players, games, tiles, characters, map_items, interactables,
                   startOks, lootOks, interactOks>>

\* character.position_q = q; ...; character.save(); return Response(...).
MoveSave(n) ==
    /\ reqs[n].pc = "move_save"
    /\ characters' = [characters EXCEPT
                         ![reqs[n].c] = Moved(reqs[n].character[1],
                                              reqs[n].q[1], reqs[n].r[1])]
    /\ reqs' = [reqs EXCEPT ![n] = Finished(@, HTTP_200_OK)]
    /\ last' = Response("move", reqs[n].c, <<reqs[n].q, reqs[n].r>>, HTTP_200_OK, "")
    /\ UNCHANGED <<catalog, players, games, tiles, map_items, interactables,
                   startOks, lootOks, interactOks>>

\* Request 1 is a move, the others are loots.
InitMoveLootRace ==
    /\ LootWorld
    /\ reqs = [n \in 1..NumRequests |->
                  IF n = 1
                  THEN [pc |-> "move_new", c |-> 0, q |-> None, r |-> None,
                        character |-> None, status |-> 0]
                  ELSE NewRequest]

NextMoveLootRace ==
    \/ \E n \in 1..NumRequests, c \in 1..NumCharacters, q \in Coords, r \in Coords :
          MoveGetObject(n, c, Some(q), Some(r))
    \/ \E n \in 1..NumRequests : MoveFindTile(n)
    \/ \E n \in 1..NumRequests : MoveSave(n)
    \/ \E n \in 1..NumRequests, c \in 1..NumCharacters, i \in ItemIdInputs :
          LootGetObject(n, c, i)
    \/ \E n \in 1..NumRequests : LootFind(n)
    \/ \E n \in 1..NumRequests : LootSaveCharacter(n)
    \/ \E n \in 1..NumRequests : LootSaveItem(n)

\* A move and loots served concurrently, their ORM calls interleaved.
SpecMoveLootRace == InitMoveLootRace /\ [][NextMoveLootRace]_vars

\* C27: when a move and a loot on one character have both returned success,
\* the stored character has the position set by the move and the inventory
\* entry appended by the loot.
C27_MoveAndLootBothKept ==
    \A n1 \in DOMAIN reqs, n2 \in DOMAIN reqs :
        (/\ reqs[n1].pc = "done" /\ reqs[n1].status = HTTP_200_OK /\ "q" \in DOMAIN reqs[n1]
         /\ reqs[n2].pc = "done" /\ reqs[n2].status = HTTP_200_OK
         /\ "item_id" \in DOMAIN reqs[n2]
         /\ reqs[n1].c = reqs[n2].c) =>
            /\ characters[reqs[n1].c].position_q = reqs[n1].q[1]
            /\ characters[reqs[n1].c].position_r = reqs[n1].r[1]
            /\ HoldsEntryOf(reqs[n2].c, reqs[n2].found[1])


(***************************************************************************)
(* Interactables.                                                          *)
(***************************************************************************)
\* The row InteractableCreateSerializer inserts: is_active, current_uses,
\* last_used_tick and interactions take the model's defaults.
NewInteractable(game, q, r, max_uses, cooldown_ticks) ==
    [game |-> game, position_q |-> q, position_r |-> r, is_active |-> TRUE,
     max_uses |-> max_uses, current_uses |-> 0, cooldown_ticks |-> cooldown_ticks,
     last_used_tick |-> None, interactions |-> <<>>]

\* get_object_or_404(Character, id=character_id, game=interactable.game).
CharacterOfGame(chars, c, game) == Exists(chars, c) /\ chars[c].game = game

\* InteractableViewSet.interact, the checks after the character is found:
\* "" when the interaction is allowed, else the error.
InteractErrorOffByOne(obj, ch) ==
    IF ch.position_q # obj.position_q \/ ch.position_r # obj.position_r
    THEN "Character must be at the same position as the interactable"
    ELSE IF ~obj.is_active THEN "Interactable is not active"
    ELSE IF obj.max_uses > 0 /\ obj.current_uses > obj.max_uses
    THEN "Interactable has been used maximum times"
    ELSE ""
InteractErrorIgnoringActive(obj, ch) ==
    IF ch.position_q # obj.position_q \/ ch.position_r # obj.position_r
    THEN "Character must be at the same position as the interactable"
    ELSE IF obj.max_uses > 0 /\ obj.current_uses >= obj.max_uses
    THEN "Interactable has been used maximum times"
    ELSE ""
InteractError(obj, ch) ==
    IF ch.position_q # obj.position_q \/ ch.position_r # obj.position_r
    THEN "Character must be at the same position as the interactable"
    ELSE IF ~obj.is_active THEN "Interactable is not active"
    ELSE IF obj.max_uses > 0 /\ obj.current_uses >= obj.max_uses
    THEN "Interactable has been used maximum times"
    ELSE ""

\* The record appended to the interaction history.
InteractionRecord(c, tick) ==
    [character_id |-> c, tick |-> tick, timestamp |-> "now", result |-> "success"]

\* The interactable row interact saves.
Interacted(obj, c, tick) ==
    [obj EXCEPT !.current_uses = @ + 1,
                !.last_used_tick = Some(tick),
                !.interactions = Append(@, InteractionRecord(c, tick))]

\* POST interactables/{i}/interact {character_id}; None when the key is missing.
Interact(i, character_id) ==
    /\ IF ~Exists(interactables, i)
       THEN /\ last' = Response("interact", i, character_id, HTTP_404_NOT_FOUND,
                                "Not found.")
            /\ UNCHANGED <<interactables, interactOks>>
       ELSE IF character_id = None \/ character_id = Some(0)
       THEN /\ last' = Response("interact", i, character_id, HTTP_400_BAD_REQUEST,
                                "character_id is required")
            /\ UNCHANGED <<interactables, interactOks>>
       ELSE IF ~CharacterOfGame(characters, character_id[1], interactables[i].game)
       THEN /\ last' = Response("interact", i, character_id, HTTP_404_NOT_FOUND,
                                "Not found.")
            /\ UNCHANGED <<interactables, interactOks>>
       ELSE IF InteractError(interactables[i], characters[character_id[1]]) # ""
       THEN /\ last' = Response("interact", i, character_id, HTTP_400_BAD_REQUEST,
                                InteractError(interactables[i],
                                              characters[character_id[1]]))
            /\ UNCHANGED <<interactables, interactOks>>
       ELSE /\ Len(interactables[i].interactions) < MaxInteractions
            /\ interactOks[i] < MaxInteractions
            /\ interactables' =
                  [interactables EXCEPT
                      ![i] = Interacted(@, character_id[1],
                                        games[interactables[i].game].current_tick)]
            /\ interactOks' = [interactOks EXCEPT ![i] = @ + 1]
            /\ last' = Response("interact", i, character_id, HTTP_200_OK, "")
    /\ UNCHANGED <<catalog, players, games, tiles, characters, map_items, reqs, startOks, lootOks>>

\* InteractableSerializer.get_can_use.
get_can_use(obj, current_tick) ==
    IF obj.max_uses > 0 /\ obj.current_uses >= obj.max_uses THEN FALSE
    ELSE IF /\ obj.last_used_tick # None /\ obj.last_used_tick # Some(0)
            /\ obj.cooldown_ticks > 0
            /\ current_tick - obj.last_used_tick[1] < obj.cooldown_ticks
    THEN FALSE
    ELSE obj.is_active

\* GET interactables/{i}: the serialized can_use is kept as the response's arg.
InteractableRetrieve(i) ==
    /\ IF ~Exists(interactables, i)
       THEN last' = Response("interactable_retrieve", i, None, HTTP_404_NOT_FOUND,
                             "Not found.")
       ELSE last' = Response("interactable_retrieve", i,
                             Some(get_can_use(interactables[i],
                                              games[interactables[i].game].current_tick)),
                             HTTP_200_OK, "")
    /\ UNCHANGED <<catalog, players, games, tiles, characters, map_items, interactables, reqs,
                   startOks, lootOks, interactOks>>

\* PATCH interactables/{i} {is_active}: InteractableSerializer, is_active a
\* writable field; current_uses and last_used_tick are read-only.
InteractablePartialUpdate(i, is_active) ==
    /\ IF ~Exists(interactables, i)
       THEN /\ last' = Response("interactable_partial_update", i, is_active,
                                HTTP_404_NOT_FOUND, "Not found.")
            /\ UNCHANGED interactables
       ELSE /\ interactables' = [interactables EXCEPT ![i].is_active = is_active]
            /\ last' = Response("interactable_partial_update", i, is_active,
                                HTTP_200_OK, "")
    /\ UNCHANGED <<catalog, players, games, tiles, characters, map_items, reqs,
                   startOks, lootOks, interactOks>>

\* The games of the interactable specifications: active, at any tick up to MaxTick.
GameAtTick(tick) == [ActiveGame EXCEPT !.current_tick = tick]

\* The world after the interactables were created: each on a tile of its game,
\* unused; the characters on tiles of game 1.
InteractWorld ==
    /\ games \in [1..NumGames -> {GameAtTick(t) : t \in 0..MaxTick}]
    /\ players = InitialPlayers
    /\ catalog = <<>>
    /\ tiles = InitialTiles
    /\ \E home \in [1..NumCharacters -> {cell \in MapCells : cell[1] = 1 /\ cell[2] = 0}] :
          characters = [c \in 1..NumCharacters |->
                           NewCharacter(1, home[c][2], home[c][3],
                                        DefaultInventoryCapacity)]
    /\ map_items = <<>>
    /\ interactables \in
          [1..NumInteractables ->
              {NewInteractable(cell[1], cell[2], cell[3], mu, cd) :
                  cell \in {x \in MapCells : x[2] = 0}, mu \in 0..MaxUses,
                  cd \in 0..MaxCooldown}]
    /\ reqs = <<>>
    /\ last = NoRequest
    /\ startOks = [g \in 1..NumGames |-> 0]
    /\ lootOks = <<>>
    /\ interactOks = [i \in 1..NumInteractables |-> 0]

CharacterIdInputs == {None} \cup {Some(c) : c \in 0..NumCharacters}

InteractRequest ==
    \E i \in 1..NumInteractables, c \in CharacterIdInputs : Interact(i, c)

\* Runs of interact requests only, one request at a time.
SpecInteractOnly == InteractWorld /\ [][InteractRequest]_vars

NextInteract ==
    \/ InteractRequest
    \/ \E i \in 1..NumInteractables : InteractableRetrieve(i)
    \/ \E i \in 1..NumInteractables, a \in BOOLEAN : InteractablePartialUpdate(i, a)
    \/ \E c \in 1..NumCharacters, q \in {Some(0)}, r \in CoordInputs : Move(c, q, r)
    \/ \E c \in 1..NumCharacters : CharacterPartialUpdate(c, "dead")

\* Interactables: interact, retrieve, partial_update, with the characters
\* moving and dying, one request at a time.
SpecInteract == InteractWorld /\ [][NextInteract]_vars

(***************************************************************************)
(* interact, served concurrently.  get_object() reads the interactable     *)
(* row, get_object_or_404 reads the character row, the checks run on the   *)
(* request's copy of the interactable, and save() writes that copy.        *)
(***************************************************************************)
\* interactable = self.get_object(); character_id = request.data.get(...).
InteractGetObject(n, i, character_id) ==
    /\ reqs[n].pc = "new"
    /\ IF ~Exists(interactables, i)
       THEN /\ reqs' = [reqs EXCEPT ![n] =
                           Finished([@ EXCEPT !.i = i, !.character_id = character_id],
                                    HTTP_404_NOT_FOUND)]
            /\ last' = Response("interact", i, character_id, HTTP_404_NOT_FOUND,
                                "Not found.")
       ELSE IF character_id = None \/ character_id = Some(0)
       THEN /\ reqs' = [reqs EXCEPT ![n] =
                           Finished([@ EXCEPT !.i = i, !.character_id = character_id],
                                    HTTP_400_BAD_REQUEST)]
            /\ last' = Response("interact", i, character_id, HTTP_400_BAD_REQUEST,
                                "character_id is required")
       ELSE /\ reqs' = [reqs EXCEPT ![n] =
                           [@ EXCEPT !.pc = "character", !.i = i,
                                     !.character_id = character_id,
                                     !.interactable = Some(interactables[i])]]
            /\ UNCHANGED last
    /\ UNCHANGED <<catalog, players, games, tiles, characters, map_items, interactables,
                   startOks, lootOks, interactOks>>

\* character = get_object_or_404(...), then the checks on the request's copy
\* of the interactable.
InteractGetCharacter(n) ==
    /\ reqs[n].pc = "character"
    /\ LET c == reqs[n].character_id[1]
           obj == reqs[n].interactable[1]
       IN  IF ~CharacterOfGame(characters, c, obj.game)
           THEN /\ reqs' = [reqs EXCEPT ![n] = Finished(@, HTTP_404_NOT_FOUND)]
                /\ last' = Response("interact", reqs[n].i, reqs[n].character_id,
                                    HTTP_404_NOT_FOUND, "Not found.")
           ELSE IF InteractError(obj, characters[c]) # ""
           THEN /\ reqs' = [reqs EXCEPT ![n] = Finished(@, HTTP_400_BAD_REQUEST)]
                /\ last' = Response("interact", reqs[n].i, reqs[n].character_id,
                                    HTTP_400_BAD_REQUEST,
                                    InteractError(obj, characters[c]))
           ELSE /\ reqs' = [reqs EXCEPT ![n] =
                               [@ EXCEPT !.pc = "save",
                                         !.character = Some(characters[c])]]
                /\ UNCHANGED last
    /\ UNCHANGED <<catalog, players, games, tiles, characters, map_items, interactables,
                   startOks, lootOks, interactOks>>

\* A save that tests the use limit again, on the stored row, and writes the
\* stored row's counter plus one.
InteractSaveCompareAndSwap(n) ==
    /\ reqs[n].pc = "save"
    /\ LET i == reqs[n].i
           stored == interactables[i]
       IN  IF stored.max_uses > 0 /\ stored.current_uses >= stored.max_uses
           THEN /\ reqs' = [reqs EXCEPT ![n] = Finished(@, HTTP_400_BAD_REQUEST)]
                /\ last' = Response("interact", i, reqs[n].character_id,
                                    HTTP_400_BAD_REQUEST,
                                    "Interactable has been used maximum times")
                /\ UNCHANGED <<interactables, interactOks>>
           ELSE /\ interactables' =
                      [interactables EXCEPT
                          ![i] = Interacted(stored, reqs[n].character_id[1],
                                            games[stored.game].current_tick)]
                /\ interactOks' = [interactOks EXCEPT ![i] = @ + 1]
                /\ reqs' = [reqs EXCEPT ![n] = Finished(@, HTTP_200_OK)]
                /\ last' = Response("interact", i, reqs[n].character_id,
                                    HTTP_200_OK, "")
    /\ UNCHANGED <<catalog, players, games, tiles, characters, map_items, startOks, lootOks>>

\* interactable.current_uses += 1; ...; interactable.save(); return Response.
InteractSave(n) ==
    /\ reqs[n].pc = "save"
    /\ LET i == reqs[n].i
           obj == reqs[n].interactable[1]
       IN  /\ interactables' =
                  [interactables EXCEPT
                      ![i] = Interacted(obj, reqs[n].character_id[1],
                                        games[obj.game].current_tick)]
           /\ interactOks' = [interactOks EXCEPT ![i] = @ + 1]
           /\ reqs' = [reqs EXCEPT ![n] = Finished(@, HTTP_200_OK)]
           /\ last' = Response("interact", i, reqs[n].character_id, HTTP_200_OK, "")
    /\ UNCHANGED <<catalog, players, games, tiles, characters, map_items, startOks, lootOks>>

\* The world of the interactables, with NumRequests requests about to be
\* served concurrently.
InitInteractRace ==
    /\ games \in [1..NumGames -> {GameAtTick(t) : t \in 0..MaxTick}]
    /\ players = InitialPlayers
    /\ catalog = <<>>
    /\ tiles = InitialTiles
    /\ characters = [c \in 1..NumCharacters |->
                        NewCharacter(1, 0, 0, DefaultInventoryCapacity)]
    /\ map_items = <<>>
    /\ interactables \in
          [1..NumInteractables ->
              {NewInteractable(1, 0, r, mu, 0) : r \in Coords, mu \in 0..MaxUses}]
    /\ reqs = [n \in 1..NumRequests |->
                  [pc |-> "new", i |-> 0, character_id |-> None, interactable |-> None,
                   character |-> None, status |-> 0]]
    /\ last = NoRequest
    /\ startOks = [g \in 1..NumGames |-> 0]
    /\ lootOks = <<>>
    /\ interactOks = [i \in 1..NumInteractables |-> 0]

NextInteractRace ==
    \/ \E n \in 1..NumRequests, i \in 0..NumInteractables, c \in CharacterIdInputs :
          InteractGetObject(n, i, c)
    \/ \E n \in 1..NumRequests : InteractGetCharacter(n)
    \/ \E n \in 1..NumRequests : InteractSave(n)

\* NumRequests interact requests served concurrently, their ORM calls
\* interleaved.
SpecInteractRace == InitInteractRace /\ [][NextInteractRace]_vars

\* Requests n1 and n2 both read interactable i active with one use remaining
\* and both passed the use-limit check.
BothPassedUseLimit(n1, n2, i) ==
    /\ n1 # n2
    /\ \A n \in {n1, n2} :
          /\ reqs[n].i = i
          /\ reqs[n].pc \in {"save", "done"}
          /\ reqs[n].character # None
          /\ reqs[n].interactable[1].is_active
          /\ reqs[n].interactable[1].max_uses > 0
          /\ reqs[n].interactable[1].current_uses
                 = reqs[n].interactable[1].max_uses - 1

\* C23: two concurrent interact requests on an active interactable with one
\* use remaining that have both passed the use-limit check both return
\* success, and the successful interactions then exceed max_uses.
C23_RaceExceedsMaxUses ==
    \A n1 \in DOMAIN reqs, n2 \in DOMAIN reqs, i \in DOMAIN interactables :
        (BothPassedUseLimit(n1, n2, i) /\ reqs[n1].pc = "done" /\ reqs[n2].pc = "done") =>
            /\ reqs[n1].status = HTTP_200_OK /\ reqs[n2].status = HTTP_200_OK
            /\ interactOks[i] > interactables[i].max_uses

\* C23 witness: two requests have both succeeded on an interactable that had
\* one use remaining; the stored counter stands at max_uses.
C23_Witness ==
    \E n1 \in DOMAIN reqs, n2 \in DOMAIN reqs, i \in DOMAIN interactables :
        /\ BothPassedUseLimit(n1, n2, i)
        /\ reqs[n1].status = HTTP_200_OK /\ reqs[n2].status = HTTP_200_OK
        /\ interactOks[i] > interactables[i].max_uses
        /\ interactables[i].current_uses = interactables[i].max_uses

(***************************************************************************)
(* move on a long map: the tiles (0, 0) .. (0, MoveSpan) of game 1, the     *)
(* tile (0, 1) impassable; one character and one map item on (0, 0).       *)
(***************************************************************************)
\* PATCH characters/{c} {movement_path, movement_points}: both are writable
\* fields of CharacterUpdateSerializer, with no validator.
CharacterPatchMovement(c, movement_path, movement_points) ==
    /\ LET data == <<movement_path, movement_points>>
       IN  IF ~VisibleCharacter(characters, c)
           THEN /\ last' = Response("character_partial_update", c, data,
                                    HTTP_404_NOT_FOUND, "Not found.")
                /\ UNCHANGED characters
           ELSE /\ characters' = [characters EXCEPT
                                     ![c].movement_path = movement_path,
                                     ![c].movement_points = movement_points]
                /\ last' = Response("character_partial_update", c, data,
                                    HTTP_200_OK, "")
    /\ UNCHANGED <<catalog, players, games, tiles, map_items, interactables, reqs,
                   startOks, lootOks, interactOks>>

MoveWorld ==
    /\ games = [g \in 1..NumGames |-> ActiveGame]
    /\ players = InitialPlayers
    /\ catalog = <<>>
    /\ tiles = [t \in 1..(MoveSpan + 1) |->
                   [game |-> 1, q |-> 0, r |-> t - 1, is_passable |-> t - 1 # 1]]
    /\ characters = <<NewCharacter(1, 0, 0, DefaultInventoryCapacity)>>
    /\ map_items = <<NewMapItem(1, 0, 0, CHOOSE k \in ItemKinds : ~k.is_locked)>>
    /\ interactables = <<>>
    /\ reqs = <<>>
    /\ last = NoRequest
    /\ startOks = [g \in 1..NumGames |-> 0]
    /\ lootOks = <<0>>
    /\ interactOks = <<>>

NextMove ==
    \/ \E c \in 0..1, r \in {None} \cup {Some(x) : x \in 0..(MoveSpan + 1)} :
          Move(c, Some(0), r)
    \/ \E c \in 0..1, st \in CharacterStatuses : CharacterPartialUpdate(c, st)
    \/ \E c \in 0..1, path \in {<<>>, <<[q |-> 0, r |-> 1]>>},
          points \in {0, DefaultMaxMovementPoints} :
          CharacterPatchMovement(c, path, points)
    \/ \E c \in 0..1, m \in ItemIdInputs : Loot(c, m)

\* move, with the character's status, movement and inventory changing
\* between the moves, one request at a time.
SpecMove == MoveWorld /\ [][NextMove]_vars

\* C24: a move of a character that is not dead to an existing passable tile
\* succeeds whatever the distance and the movement points left, sets the
\* status to idle whatever it was and changes nothing but position and
\* status: movement_points, health, stamina, inventory, movement_path and
\* every other row are unchanged.
C24_MoveFrame ==
    [][\A c \in DOMAIN characters, q \in {0}, r \in 0..(MoveSpan + 1) :
          (/\ MoveStep(c, q, r)
           /\ characters[c].status # "dead"
           /\ PassableTileAt(characters[c].game, q, r)) =>
              /\ IsOk(last')
              /\ characters'[c] = [characters[c] EXCEPT !.position_q = q,
                                                        !.position_r = r,
                                                        !.status = "idle"]
              /\ characters'[c].status = "idle"
              /\ characters'[c].movement_points = characters[c].movement_points
              /\ characters'[c].health = characters[c].health
              /\ characters'[c].stamina = characters[c].stamina
              /\ characters'[c].inventory = characters[c].inventory
              /\ characters'[c].movement_path = characters[c].movement_path
              /\ UNCHANGED <<games, players, tiles, map_items, interactables>>]_vars

\* C24 witness: a character with no movement points left, a queued path and
\* an item in its inventory has moved from (0, 0) to the far end of the map
\* and is idle.
C24_Witness ==
    /\ last.op = "move" /\ IsOk(last)
    /\ last.arg = <<Some(0), Some(MoveSpan)>>
    /\ characters[1].position_r = MoveSpan
    /\ characters[1].status = "idle"
    /\ characters[1].movement_points = 0
    /\ characters[1].movement_path # <<>>
    /\ characters[1].inventory # <<>>

(***************************************************************************)
(* Every operation that can refuse a request, one request at a time.       *)
(***************************************************************************)
\* POST hex-tiles/ {game, q, r, ...}, served alone: is_valid() and save().
TileCreate(game, q, r) ==
    /\ LET data == TileData(Some(game), Some(q), Some(r))
           row == [game |-> game, q |-> q, r |-> r, is_passable |-> TRUE]
       IN  IF ~Exists(games, game)
           THEN /\ last' = Response("tile_create", 0, data, HTTP_400_BAD_REQUEST,
                                    "Invalid pk")
                /\ UNCHANGED tiles
           ELSE IF UniqueTileViolated(tiles, 0, row) \/ HexTileValidateFails(tiles, None, data)
           THEN /\ last' = Response("tile_create", 0, data, HTTP_400_BAD_REQUEST,
                                    "A tile already exists at these coordinates")
                /\ UNCHANGED tiles
           ELSE /\ tiles' = Append(tiles, row)
                /\ last' = Response("tile_create", Len(tiles) + 1, data,
                                    HTTP_201_CREATED, "")
    /\ UNCHANGED <<catalog, games, players, characters, map_items, interactables, reqs,
                   startOks, lootOks, interactOks>>

\* A world with something for every operation: game 1 waiting with one of
\* its two places taken, the other games active; the maps laid out; one
\* character, one map item and one interactable on tile (0, 0) of game 1.
WholeWorld ==
    /\ games = [g \in 1..NumGames |->
                   IF g = 1 THEN NewGame(MaxPlayersInput) ELSE ActiveGame]
    /\ players = <<NewPlayer(1, 1, Red)>>
    /\ catalog = <<>>
    /\ tiles = InitialTiles
    /\ characters = <<NewCharacter(1, 0, 0, DefaultInventoryCapacity)>>
    /\ map_items = <<NewMapItem(1, 0, 0, CHOOSE k \in ItemKinds : ~k.is_locked)>>
    /\ interactables = <<NewInteractable(1, 0, 0, 1, 0)>>
    /\ reqs = <<>>
    /\ last = NoRequest
    /\ startOks = [g \in 1..NumGames |-> 0]
    /\ lootOks = <<0>>
    /\ interactOks = <<0>>

NextWhole ==
    \/ \E u \in 1..NumUsers, g \in 0..1, c \in {Red, <<"F", "F">>} : Join(u, g, c)
    \/ \E g \in 0..1, x \in Coords : TileCreate(g, x, x)
    \/ \E g \in 1..NumGames, o \in 1..MaxPlayerRows, r \in Coords :
          CharacterCreate(g, o, 0, r, None, None)
    \/ \E c \in 1..NumCharacters,
          d \in {CharacterData(Some(DefaultMaxHealth + 1), None, Some("moving"), None),
                 CharacterData(None, None, Some("dead"), None)} :
          CharacterUpdate(c, d, TRUE)
    \/ \E g \in 0..1 : GameStart(g)
    \/ \E c \in 1..NumCharacters, q \in {Some(0), Some(MaxCoord)}, r \in CoordInputs :
          Move(c, q, r)
    \/ \E c \in 1..NumCharacters, m \in ItemIdInputs : Loot(c, m)
    \/ \E i \in 0..NumInteractables, c \in CharacterIdInputs : Interact(i, c)

\* join, tile create, character create, character update, start, move, loot
\* and interact, one request at a time.
SpecWhole == WholeWorld /\ [][NextWhole]_vars

\* C26: every character that is not dead stands on the coordinates of a tile
\* of its own game.
C26_CharactersStandOnTiles ==
    \A c \in DOMAIN characters :
        characters[c].status # "dead" =>
            \E t \in DOMAIN tiles :
                /\ tiles[t].game = characters[c].game
                /\ tiles[t].q = characters[c].position_q
                /\ tiles[t].r = characters[c].position_r

\* PUT (partial = FALSE) or PATCH (partial = TRUE) interactables/{i} with
\* is_active and interactions: InteractableSerializer leaves both writable;
\* a field the request omits is None.  interactions is a JSON field and takes
\* any list.
InteractableUpdate(i, is_active, interactions, partial) ==
    /\ LET op == IF partial THEN "interactable_partial_update" ELSE "interactable_update"
       IN  IF ~Exists(interactables, i)
           THEN /\ last' = Response(op, i, <<is_active, interactions>>,
                                    HTTP_404_NOT_FOUND, "Not found.")
                /\ UNCHANGED interactables
           ELSE /\ interactables' =
                      [interactables EXCEPT
                          ![i].is_active = IF is_active = None THEN @ ELSE is_active[1],
                          ![i].interactions = IF interactions = None THEN @
                                              ELSE interactions[1]]
                /\ last' = Response(op, i, <<is_active, interactions>>, HTTP_200_OK, "")
    /\ UNCHANGED <<catalog, players, games, tiles, characters, map_items, reqs,
                   startOks, lootOks, interactOks>>

InteractionsInputs == {None, Some(<<>>), Some(<<InteractionRecord(NumCharacters, MaxTick)>>)}

NextInteractHistory ==
    \/ InteractRequest
    \/ \E i \in 0..NumInteractables, a \in {None, Some(TRUE), Some(FALSE)},
          h \in InteractionsInputs, partial \in BOOLEAN :
          InteractableUpdate(i, a, h, partial)

\* One unused interactable on tile (0, 0) of game 1, limited or unlimited,
\* with the characters of game 1 on it and next to it.
InteractHistoryWorld ==
    /\ games = [g \in 1..NumGames |-> ActiveGame]
    /\ players = InitialPlayers
    /\ catalog = <<>>
    /\ tiles = InitialTiles
    /\ characters = [c \in 1..NumCharacters |->
                         NewCharacter(1, 0, (c - 1) % (MaxCoord + 1),
                                      DefaultInventoryCapacity)]
    /\ map_items = <<>>
    /\ \E mu \in {0, MaxUses} :
          interactables = [i \in 1..NumInteractables |-> NewInteractable(1, 0, 0, mu, 0)]
    /\ reqs = <<>>
    /\ last = NoRequest
    /\ startOks = [g \in 1..NumGames |-> 0]
    /\ lootOks = <<>>
    /\ interactOks = [i \in 1..NumInteractables |-> 0]

\* Interactables: interact, update and partial_update, one request at a time.
SpecInteractHistory == InteractHistoryWorld /\ [][NextInteractHistory]_vars

IsPrefix(s1, s2) == Len(s1) <= Len(s2) /\ SubSeq(s2, 1, Len(s1)) = s1

\* C20: under interact, update and partial_update the interaction history of
\* an interactable only grows at its end: each state's history is a prefix
\* of the next state's.
C20_HistoryAppendOnly ==
    [][\A i \in DOMAIN interactables :
          IsPrefix(interactables[i].interactions, interactables'[i].interactions)]_vars

Rows == <<games, players, tiles, characters, map_items, interactables>>

RefusingOperations ==
    {"join", "tile_create", "character_create", "character_update",
     "character_partial_update", "start", "move", "loot", "interact"}

Missing == [value |-> 0, kind |-> "missing"]
Text == [value |-> 0, kind |-> "text"]
Integer(n) == [value |-> n, kind |-> "int"]

\* A filter that forgets the game.
NearbyTilesAnyGame(game, q, r, radius) ==
    {t \in DOMAIN tiles :
        /\ tiles[t].q >= q - radius /\ tiles[t].q <= q + radius
        /\ tiles[t].r >= r - radius /\ tiles[t].r <= r + radius}

\* A filter with strict bounds.
NearbyTilesOpenBox(game, q, r, radius) ==
    {t \in DOMAIN tiles :
        /\ tiles[t].game = game
        /\ tiles[t].q > q - radius /\ tiles[t].q < q + radius
        /\ tiles[t].r > r - radius /\ tiles[t].r < r + radius}

\* The tiles of the bounding box: q - radius <= tile.q <= q + radius and the
\* same for r, in the game.
NearbyTiles(game, q, r, radius) ==
    {t \in DOMAIN tiles :
        /\ tiles[t].game = game
        /\ tiles[t].q >= q - radius /\ tiles[t].q <= q + radius
        /\ tiles[t].r >= r - radius /\ tiles[t].r <= r + radius}

\* GET hex-tiles/nearby?game&q&r&radius.  int() of a text raises ValueError,
\* which nothing catches; radius is converted before the required
\* parameters are looked at, and a missing radius is 1.
Nearby(game, q, r, radius) ==
    /\ LET arg == <<game, q, r, radius>>
       IN  IF radius.kind = "text"
           THEN last' = Response("nearby", 0, arg, HTTP_500_INTERNAL_SERVER_ERROR,
                                 "ValueError")
           ELSE IF game.kind = "missing" \/ q.kind = "missing" \/ r.kind = "missing"
           THEN last' = Response("nearby", 0, arg, HTTP_400_BAD_REQUEST,
                                 "game, q, and r parameters are required")
           ELSE IF q.kind = "text" \/ r.kind = "text" \/ game.kind = "text"
           THEN last' = Response("nearby", 0, arg, HTTP_500_INTERNAL_SERVER_ERROR,
                                 "ValueError")
           ELSE last' = Response("nearby", 0,
                                 arg \o <<NearbyTiles(game.value, q.value, r.value,
                                                      IF radius.kind = "missing" THEN 1
                                                      ELSE radius.value)>>,
                                 HTTP_200_OK, "")
    /\ UNCHANGED <<catalog, games, players, tiles, characters, map_items, interactables, reqs,
                   startOks, lootOks, interactOks>>

\* POST characters/{c}/move with a q that is a text and no integer: the tile
\* filter raises ValueError.
MoveNonInteger(c, r) ==
    /\ IF ~VisibleCharacter(characters, c)
       THEN last' = Response("move", c, <<Text, r>>, HTTP_404_NOT_FOUND, "Not found.")
       ELSE IF r = None
       THEN last' = Response("move", c, <<Text, r>>, HTTP_400_BAD_REQUEST,
                             "q and r coordinates are required")
       ELSE last' = Response("move", c, <<Text, r>>, HTTP_500_INTERNAL_SERVER_ERROR,
                             "ValueError")
    /\ UNCHANGED <<catalog, games, players, tiles, characters, map_items, interactables, reqs,
                   startOks, lootOks, interactOks>>

ParameterInputs == {Missing, Text} \cup {Integer(n) : n \in Coords}
RadiusInputs == {Missing, Text} \cup {Integer(n) : n \in -1..MaxCoord}

NextRequests ==
    \/ \E u \in 1..NumUsers, g \in 0..NumGames, c \in {Red, <<"F", "F">>} : Join(u, g, c)
    \/ \E c \in 0..NumCharacters, q \in CoordInputs, r \in CoordInputs : Move(c, q, r)
    \/ \E c \in 0..NumCharacters, r \in CoordInputs : MoveNonInteger(c, r)
    \/ \E g \in {Missing, Text} \cup {Integer(n) : n \in 0..NumGames},
          q \in ParameterInputs, r \in ParameterInputs, radius \in RadiusInputs :
          Nearby(g, q, r, radius)

\* join, move and nearby with well-formed and malformed parameters, one
\* request at a time.
SpecRequests == WholeWorld /\ [][NextRequests]_vars

\* C19: every request ends in success, a validation error (400) or a
\* not-found error (404), whatever its input.
C19_ThreeOutcomeKinds ==
    last.op # "none" =>
        last.status \in {HTTP_200_OK, HTTP_201_CREATED, HTTP_400_BAD_REQUEST,
                         HTTP_404_NOT_FOUND}


(***************************************************************************)
(* nearby as a query: the tile table is a few of the cells below, in the    *)
(* order of their creation, and the parameters are integers.               *)
(***************************************************************************)
\* A map is drawn from every cell of game 1 and one cell of each other game.
NearbyWorld ==
    /\ games = [g \in 1..NumGames |-> ActiveGame]
    /\ players = InitialPlayers
    /\ catalog = <<>>
    /\ \E cells \in SUBSET {<<g, q, r>> \in (1..NumGames) \X Coords \X Coords :
                                g = 1 \/ (q = 0 /\ r = 0)} :
          Cardinality(cells) <= NearbyMaxTiles /\ tiles = TileRows(cells)
    /\ characters = <<>>
    /\ map_items = <<>>
    /\ interactables = <<>>
    /\ reqs = <<>>
    /\ last = NoRequest
    /\ startOks = [g \in 1..NumGames |-> 0]
    /\ lootOks = <<>>
    /\ interactOks = <<>>

\* Centres on the map and one cell outside it; a request may omit the
\* radius.
NextNearby ==
    \E g \in 0..NumGames, q \in -1..(MaxCoord + 1), r \in -1..(MaxCoord + 1),
       radius \in -1..MaxCoord, given \in BOOLEAN :
          Nearby(Integer(g), Integer(q), Integer(r),
                 IF given THEN Integer(radius) ELSE Missing)

SpecNearby == NearbyWorld /\ [][NextNearby]_vars

Abs(n) == IF n < 0 THEN -n ELSE n

\* The response to nearby with integer parameters.
NearbyAnswered ==
    /\ last.op = "nearby"
    /\ \A k \in 1..4 : last.arg[k].kind = "int"

\* C21: nearby(game, q, r, radius) returns exactly the tiles of the game with
\* |q' - q| <= radius and |r' - r| <= radius: none of another game, none
\* outside the box, every one inside it, and none for a negative radius.
C21_NearbyIsBoundingBox ==
    NearbyAnswered =>
        LET game == last.arg[1].value
            q == last.arg[2].value
            r == last.arg[3].value
            radius == last.arg[4].value
        IN  /\ last.status = HTTP_200_OK
            /\ last.arg[5] = {t \in DOMAIN tiles :
                                 /\ tiles[t].game = game
                                 /\ Abs(tiles[t].q - q) <= radius
                                 /\ Abs(tiles[t].r - r) <= radius}
            /\ radius < 0 => last.arg[5] = {}

\* C21 witness: nearby has answered with some tiles and left out a tile of
\* another game that lies in the box and a tile of the game outside the box.
C21_Witness ==
    /\ NearbyAnswered
    /\ last.status = HTTP_200_OK
    /\ last.arg[5] # {}
    /\ \E t \in DOMAIN tiles :
          /\ tiles[t].game # last.arg[1].value
          /\ Abs(tiles[t].q - last.arg[2].value) <= last.arg[4].value
          /\ Abs(tiles[t].r - last.arg[3].value) <= last.arg[4].value
          /\ t \notin last.arg[5]
    /\ \E t \in DOMAIN tiles :
          /\ tiles[t].game = last.arg[1].value
          /\ Abs(tiles[t].q - last.arg[2].value) > last.arg[4].value
          /\ t \notin last.arg[5]

\* The axial hex distance between two cells.
HexDistance(q1, r1, q2, r2) ==
    LET dq == q1 - q2
        dr == r1 - r2
        m == IF Abs(dq) >= Abs(dr) THEN Abs(dq) ELSE Abs(dr)
    IN  IF m >= Abs(dq + dr) THEN m ELSE Abs(dq + dr)

\* C30: for a radius >= 0, every tile of the game whose axial hex distance
\* from the centre is <= radius is in the result of nearby.
C30_NearbyContainsHexDisc ==
    (NearbyAnswered /\ last.arg[4].value >= 0) =>
        \A t \in DOMAIN tiles :
            (/\ tiles[t].game = last.arg[1].value
             /\ HexDistance(tiles[t].q, tiles[t].r, last.arg[2].value, last.arg[3].value)
                    <= last.arg[4].value)
            => (last.status = HTTP_200_OK /\ t \in last.arg[5])

\* C30 witness: the result holds a tile at hex distance exactly radius > 0
\* and a tile of the box that is farther than radius in hex distance.
C30_Witness ==
    /\ NearbyAnswered
    /\ last.status = HTTP_200_OK
    /\ last.arg[4].value > 0
    /\ \E t \in last.arg[5] :
          HexDistance(tiles[t].q, tiles[t].r, last.arg[2].value, last.arg[3].value)
              = last.arg[4].value
    /\ \E t \in last.arg[5] :
          HexDistance(tiles[t].q, tiles[t].r, last.arg[2].value, last.arg[3].value)
              > last.arg[4].value


(***************************************************************************)
(* The item catalog (src/items).  A name is a sequence of characters; a    *)
(* request's data holds None for a field it omits.                         *)
(***************************************************************************)
MinStackSize == 1
MaxStackSize == 9999
MaxUpgradeLevel == 100

\* str.strip(): the value without its leading and trailing blanks.
RECURSIVE Strip(_)
Strip(value) ==
    IF value # <<>> /\ Head(value) = " "
    THEN Strip(Tail(value))
    ELSE IF value # <<>> /\ value[Len(value)] = " "
    THEN Strip(SubSeq(value, 1, Len(value) - 1))
    ELSE value

\* The name field: CharField(trim_whitespace, allow_blank=False) with the
\* UniqueValidator of Item.name, which leaves the instance out on an update.
NameFieldValid(rows, pk, value) ==
    /\ Strip(value) # <<>>
    /\ ~\E i \in DOMAIN rows : i # pk /\ rows[i].name = Strip(value)

\* ItemCreateSerializer.validate_name.
validate_name(value) == ~(value = <<>> \/ Strip(value) = <<>>)

\* ItemCreateSerializer.validate_rarity, with its own list of the rarities;
\* the rarity field itself is a ChoiceField over the choices of Item.rarity
\* (common, rare, legendary), on the create path and on the update path.
validate_rarity(value) == value \in {"common", "rare", "legendary"}

\* validate_stack_size, validate_cooldown and validate_upgrade_level, the
\* same in ItemCreateSerializer and ItemUpdateSerializer.
validate_stack_sizeNoUpperBound(value) == ~(value < MinStackSize)
validate_stack_size(value) == ~(value < MinStackSize) /\ ~(value > MaxStackSize)
validate_cooldown(value) == ~(value < 0)
validate_upgrade_level(value) == ~(value < 0) /\ ~(value > MaxUpgradeLevel)

\* ItemCreateSerializer.is_valid(): name and rarity are required.
ItemCreateValid(rows, data) ==
    /\ data.name # None /\ NameFieldValid(rows, 0, data.name[1])
    /\ validate_name(Strip(data.name[1]))
    /\ data.rarity # None /\ data.rarity[1] \in {"common", "rare", "legendary"}
    /\ validate_rarity(data.rarity[1])
    /\ data.stack_size # None => validate_stack_size(data.stack_size[1])
    /\ data.cooldown # None => validate_cooldown(data.cooldown[1])
    /\ data.upgrade_level # None => validate_upgrade_level(data.upgrade_level[1])

\* ItemUpdateSerializer.is_valid(): name and rarity are required unless the
\* update is partial; it has no validate_name and no validate_rarity, the
\* fields make their own tests.
ItemUpdateValid(rows, pk, data, partial) ==
    /\ data.name = None => partial
    /\ data.name # None => NameFieldValid(rows, pk, data.name[1])
    /\ data.rarity = None => partial
    /\ data.rarity # None => data.rarity[1] \in {"common", "rare", "legendary"}
    /\ data.stack_size # None => validate_stack_size(data.stack_size[1])
    /\ data.cooldown # None => validate_cooldown(data.cooldown[1])
    /\ data.upgrade_level # None => validate_upgrade_level(data.upgrade_level[1])

\* POST items/.  Item.objects.create(**validated_data): a field left out
\* takes the model's default.
ItemCreate(data) ==
    /\ IF ~ItemCreateValid(catalog, data)
       THEN /\ last' = Response("item_create", 0, data, HTTP_400_BAD_REQUEST, "invalid")
            /\ UNCHANGED catalog
       ELSE /\ Len(catalog) < MaxCatalogRows
            /\ catalog' = Append(catalog,
                  [name |-> Strip(data.name[1]),
                   rarity |-> data.rarity[1],
                   stack_size |-> IF data.stack_size = None THEN 1
                                  ELSE data.stack_size[1],
                   cooldown |-> IF data.cooldown = None THEN 0 ELSE data.cooldown[1],
                   upgrade_level |-> IF data.upgrade_level = None THEN 0
                                     ELSE data.upgrade_level[1],
                   is_active |-> IF data.is_active = None THEN TRUE
                                 ELSE data.is_active[1]])
            /\ last' = Response("item_create", Len(catalog) + 1, data,
                                HTTP_201_CREATED, "")
    /\ UNCHANGED <<games, players, tiles, characters, map_items, interactables, reqs,
                   startOks, lootOks, interactOks>>

\* PUT (partial = FALSE) or PATCH (partial = TRUE) items/{i}.
\* ModelSerializer.update: the fields of validated_data are assigned.
ItemUpdate(i, data, partial) ==
    /\ LET op == IF partial THEN "item_partial_update" ELSE "item_update"
       IN  IF ~Exists(catalog, i)
           THEN /\ last' = Response(op, i, data, HTTP_404_NOT_FOUND, "Not found.")
                /\ UNCHANGED catalog
           ELSE IF ~ItemUpdateValid(catalog, i, data, partial)
           THEN /\ last' = Response(op, i, data, HTTP_400_BAD_REQUEST, "invalid")
                /\ UNCHANGED catalog
           ELSE /\ catalog' = [catalog EXCEPT ![i] =
                     [name |-> IF data.name = None THEN @.name
                               ELSE Strip(data.name[1]),
                      rarity |-> IF data.rarity = None THEN @.rarity
                                 ELSE data.rarity[1],
                      stack_size |-> IF data.stack_size = None THEN @.stack_size
                                     ELSE data.stack_size[1],
                      cooldown |-> IF data.cooldown = None THEN @.cooldown
                                   ELSE data.cooldown[1],
                      upgrade_level |-> IF data.upgrade_level = None
                                        THEN @.upgrade_level
                                        ELSE data.upgrade_level[1],
                      is_active |-> IF data.is_active = None THEN @.is_active
                                    ELSE data.is_active[1]]]
                /\ last' = Response(op, i, data, HTTP_200_OK, "")
    /\ UNCHANGED <<games, players, tiles, characters, map_items, interactables, reqs,
                   startOks, lootOks, interactOks>>

\* POST items/{i}/activate.
Activate(i) ==
    /\ IF ~Exists(catalog, i)
       THEN /\ last' = Response("item_activate", i, <<>>, HTTP_404_NOT_FOUND, "Not found.")
            /\ UNCHANGED catalog
       ELSE /\ catalog' = [catalog EXCEPT ![i].is_active = TRUE]
            /\ last' = Response("item_activate", i, <<>>, HTTP_200_OK, "")
    /\ UNCHANGED <<games, players, tiles, characters, map_items, interactables, reqs,
                   startOks, lootOks, interactOks>>

\* POST items/{i}/deactivate.
Deactivate(i) ==
    /\ IF ~Exists(catalog, i)
       THEN /\ last' = Response("item_deactivate", i, <<>>, HTTP_404_NOT_FOUND,
                                "Not found.")
            /\ UNCHANGED catalog
       ELSE /\ catalog' = [catalog EXCEPT ![i].is_active = FALSE]
            /\ last' = Response("item_deactivate", i, <<>>, HTTP_200_OK, "")
    /\ UNCHANGED <<games, players, tiles, characters, map_items, interactables, reqs,
                   startOks, lootOks, interactOks>>

\* The request bodies: the body w with one field given another value,
\* well-formed or not.
OneFieldReplaced(w) ==
    {[w EXCEPT !.name = v] :
        v \in {None, Some(<<>>), Some(<<" ">>), Some(<<"a">>), Some(<<" ", "b">>)}}
        \cup {[w EXCEPT !.rarity = v] :
                 v \in {None, Some(""), Some("common"), Some("legendary"), Some("epic")}}
        \cup {[w EXCEPT !.stack_size = v] :
                 v \in {None, Some(0), Some(MaxStackSize), Some(MaxStackSize + 1)}}
        \cup {[w EXCEPT !.cooldown = v] : v \in {None, Some(-1), Some(0)}}
        \cup {[w EXCEPT !.upgrade_level = v] :
                 v \in {None, Some(-1), Some(MaxUpgradeLevel),
                        Some(MaxUpgradeLevel + 1)}}
        \cup {[w EXCEPT !.is_active = v] : v \in {None, Some(FALSE)}}

\* POST and PUT send a well-formed body with one field replaced, PATCH a
\* body of one field.
NextCatalog ==
    \/ \E d \in OneFieldReplaced([name |-> Some(<<"a">>), rarity |-> Some("common"),
                                   stack_size |-> None, cooldown |-> None,
                                   upgrade_level |-> None, is_active |-> None]) :
          ItemCreate(d)
    \/ \E i \in 0..MaxCatalogRows,
          d \in OneFieldReplaced([name |-> Some(<<"a">>), rarity |-> Some("common"),
                                  stack_size |-> None, cooldown |-> None,
                                  upgrade_level |-> None, is_active |-> None]) :
          ItemUpdate(i, d, FALSE)
    \/ \E i \in 0..MaxCatalogRows,
          d \in OneFieldReplaced([name |-> None, rarity |-> None, stack_size |-> None,
                                  cooldown |-> None, upgrade_level |-> None,
                                  is_active |-> None]) :
          ItemUpdate(i, d, TRUE)
    \/ \E i \in 0..MaxCatalogRows : Activate(i)
    \/ \E i \in 0..MaxCatalogRows : Deactivate(i)

\* The catalog's requests, one at a time, from empty tables.
SpecCatalog == InitGame /\ [][NextCatalog]_vars

\* What the claim states of a catalog row.
ItemWellFormed(row) ==
    /\ row.name # <<>>
    /\ row.rarity \in {"common", "rare", "legendary"}
    /\ row.stack_size >= 1 /\ row.stack_size <= 9999
    /\ row.cooldown >= 0
    /\ row.upgrade_level >= 0 /\ row.upgrade_level <= 100

\* What the claim states of a request body: the values it gives are within
\* the constraints.
ItemDataWithinConstraints(data) ==
    /\ data.name # None => Strip(data.name[1]) # <<>>
    /\ data.rarity # None => data.rarity[1] \in {"common", "rare", "legendary"}
    /\ data.stack_size # None => (data.stack_size[1] >= 1 /\ data.stack_size[1] <= 9999)
    /\ data.cooldown # None => data.cooldown[1] >= 0
    /\ data.upgrade_level # None =>
           (data.upgrade_level[1] >= 0 /\ data.upgrade_level[1] <= 100)

CatalogWellFormed == \A i \in DOMAIN catalog : ItemWellFormed(catalog[i])

\* C22: every catalog Item has a non-empty name, rarity in {common, rare,
\* legendary}, stack_size in [1, 9999], cooldown >= 0 and upgrade_level in
\* [0, 100]; a create, update or partial_update whose body violates one of
\* these fails and changes nothing, on the update path as on the create
\* path.
C22_CatalogItemsWellFormed ==
    /\ []CatalogWellFormed
    /\ [][(/\ last'.op \in {"item_create", "item_update", "item_partial_update"}
           /\ (last'.op = "item_create" \/ Exists(catalog, last'.target))
           /\ ~ItemDataWithinConstraints(last'.arg))
          => (IsError(last') /\ catalog' = catalog)]_vars

\* C22 witness: an update with a stack size beyond the limit has just been
\* refused for an item that holds the greatest stack size and the greatest
\* upgrade level allowed, next to a deactivated item.
C22_Witness ==
    /\ last.op = "item_update"
    /\ last.status = HTTP_400_BAD_REQUEST
    /\ last.arg.stack_size = Some(9999 + 1)
    /\ Exists(catalog, last.target)
    /\ catalog[last.target].stack_size = 9999
    /\ \E i \in DOMAIN catalog : catalog[i].upgrade_level = 100
    /\ \E i \in DOMAIN catalog : ~catalog[i].is_active


(***************************************************************************)
(* Claims about interactables.                                             *)
(***************************************************************************)
\* The step just taken served interact(i, c).
InteractStep(i, c) ==
    last'.op = "interact" /\ last'.target = i /\ last'.arg = Some(c)

\* The character stands on the interactable's tile: same game, same (q, r).
SameTile(ch, obj) ==
    /\ ch.game = obj.game
    /\ ch.position_q = obj.position_q
    /\ ch.position_r = obj.position_r

UsedUp(obj) == obj.max_uses > 0 /\ obj.current_uses >= obj.max_uses

\* C6: for an active interactable with max_uses = N > 0 and a character on its
\* tile, interact succeeds while fewer than N interactions have succeeded and
\* fails with the maximum-times error from then on, whatever cooldown_ticks
\* and the game's tick are; with max_uses = 0 it never fails with that error.
C6_ExactlyMaxUsesSuccesses ==
    [][\A i \in DOMAIN interactables, c \in DOMAIN characters :
          (/\ InteractStep(i, c)
           /\ interactables[i].is_active
           /\ SameTile(characters[c], interactables[i])) =>
              /\ (interactables[i].max_uses > 0
                    /\ interactOks[i] < interactables[i].max_uses) =>
                       IsOk(last') /\ interactOks'[i] = interactOks[i] + 1
              /\ (interactables[i].max_uses > 0
                    /\ interactOks[i] >= interactables[i].max_uses) =>
                       /\ last'.status = HTTP_400_BAD_REQUEST
                       /\ last'.error = "Interactable has been used maximum times"
                       /\ interactOks' = interactOks
              /\ interactables[i].max_uses = 0 =>
                    last'.error # "Interactable has been used maximum times"]_vars

\* C6 witness: after max_uses = MaxUses successes at one tick, with a cooldown
\* running, the next interact failed with the maximum-times error.
C6_Witness ==
    /\ last.op = "interact"
    /\ last.error = "Interactable has been used maximum times"
    /\ interactables[last.target].max_uses = MaxUses
    /\ interactOks[last.target] = MaxUses
    /\ interactables[last.target].cooldown_ticks > 0

\* C7: interact fails if the character is not on the interactable's tile,
\* fails if the interactable is not active, fails if max_uses > 0 and
\* current_uses >= max_uses; otherwise it succeeds, current_uses grows by one,
\* last_used_tick is the game's current_tick and one record of the character
\* and the tick is appended to the history.
C7_InteractChecksAndEffect ==
    [][\A i \in DOMAIN interactables, c \in DOMAIN characters :
          InteractStep(i, c) =>
              LET obj == interactables[i]
                  new == interactables'[i]
                  tick == games[obj.game].current_tick
              IN  /\ IsOk(last') <=>
                        /\ SameTile(characters[c], obj)
                        /\ obj.is_active
                        /\ ~UsedUp(obj)
                  /\ IsOk(last') =>
                        /\ new.current_uses = obj.current_uses + 1
                        /\ new.last_used_tick = Some(tick)
                        /\ Len(new.interactions) = Len(obj.interactions) + 1
                        /\ SubSeq(new.interactions, 1, Len(obj.interactions))
                              = obj.interactions
                        /\ new.interactions[Len(new.interactions)].character_id = c
                        /\ new.interactions[Len(new.interactions)].tick = tick]_vars

\* C7 witness: a second interact succeeded at a tick after 0, stamped that
\* tick on last_used_tick, and its record closes the history.
C7_Witness ==
    /\ last.op = "interact" /\ IsOk(last)
    /\ LET obj == interactables[last.target]
       IN  /\ obj.current_uses = 2
           /\ obj.last_used_tick = Some(games[obj.game].current_tick)
           /\ games[obj.game].current_tick > 0
           /\ obj.interactions[Len(obj.interactions)].character_id = last.arg[1]

\* C28: interact succeeds only when can_use is true of the interactable at
\* the game's current tick; an interact issued while the cooldown window is
\* running (current_tick - last_used_tick < cooldown_ticks) fails and leaves
\* current_uses, last_used_tick and the history unchanged.
C28_InteractOnlyWhenCanUse ==
    [][\A i \in DOMAIN interactables, c \in DOMAIN characters :
          InteractStep(i, c) =>
              LET obj == interactables[i]
                  tick == games[obj.game].current_tick
              IN  /\ IsOk(last') => get_can_use(obj, tick)
                  /\ (/\ obj.last_used_tick # None
                      /\ obj.cooldown_ticks > 0
                      /\ tick - obj.last_used_tick[1] < obj.cooldown_ticks) =>
                         /\ ~IsOk(last')
                         /\ interactables'[i].current_uses = obj.current_uses
                         /\ interactables'[i].last_used_tick = obj.last_used_tick
                         /\ interactables'[i].interactions = obj.interactions]_vars

\* C29: interact with the id of a dead character fails and leaves the
\* interactable's current_uses, last_used_tick and history unchanged.
C29_DeadCharacterCannotInteract ==
    [][\A i \in DOMAIN interactables, c \in DOMAIN characters :
          (InteractStep(i, c) /\ characters[c].status = "dead") =>
              /\ ~IsOk(last')
              /\ interactables'[i].current_uses = interactables[i].current_uses
              /\ interactables'[i].last_used_tick = interactables[i].last_used_tick
              /\ interactables'[i].interactions = interactables[i].interactions]_vars

\* can_use as the specification states it: false when the uses are exhausted,
\* false when last_used_tick is set and the cooldown window is still running,
\* else is_active.
StatedCanUse(obj, current_tick) ==
    IF obj.max_uses > 0 /\ obj.current_uses >= obj.max_uses THEN FALSE
    ELSE IF /\ obj.last_used_tick # None
            /\ current_tick - obj.last_used_tick[1] < obj.cooldown_ticks
    THEN FALSE
    ELSE obj.is_active

\* C8: the can_use a retrieve serializes is the stated can_use, also when the
\* interactable was last used at tick 0.
C8_CanUseAsStated ==
    (last.op = "interactable_retrieve" /\ IsOk(last)) =>
        LET obj == interactables[last.target]
        IN  last.arg = Some(StatedCanUse(obj, games[obj.game].current_tick))

\* C8, the part the code keeps: the stated can_use whenever the interactable
\* was never used or was last used at a tick other than 0.
C8_CanUseAsStatedAfterTickZero ==
    (last.op = "interactable_retrieve" /\ IsOk(last)) =>
        LET obj == interactables[last.target]
        IN  obj.last_used_tick # Some(0) =>
               last.arg = Some(StatedCanUse(obj, games[obj.game].current_tick))

(***************************************************************************)
(* Claims about the game lifecycle.                                        *)
(***************************************************************************)
\* The status changes C9 allows: none, waiting -> active, active <-> paused,
\* active or paused -> finished.
Forward(old, new) ==
    \/ new = old
    \/ old = "waiting" /\ new = "active"
    \/ old = "active" /\ new \in {"paused", "finished"}
    \/ old = "paused" /\ new \in {"active", "finished"}

\* C9: a game is created waiting and under create, start, update and
\* partial_update its status only moves forward.
C9_StatusOnlyMovesForward ==
    [][/\ \A g \in DOMAIN games : Forward(games[g].status, games'[g].status)
       /\ \A g \in DOMAIN games' \ DOMAIN games : games'[g].status = "waiting"]_vars

\* The step just taken served start(g).
StartStep(g) == last'.op = "start" /\ last'.target = g

\* C10: start fails with a validation error and leaves the game unchanged
\* when status is not waiting; when it is waiting it sets status active and
\* started_at; and start succeeds at most once per game.
C10_StartOnlyFromWaitingOnce ==
    [][\A g \in DOMAIN games :
          StartStep(g) =>
              /\ games[g].status # "waiting" =>
                    last'.status = HTTP_400_BAD_REQUEST /\ games'[g] = games[g]
              /\ games[g].status = "waiting" =>
                    /\ IsOk(last')
                    /\ games'[g].status = "active"
                    /\ games'[g].started_at # None
              /\ IsOk(last') => startOks[g] = 0]_vars

\* C10, the part the code keeps: what one start request does.
C10_StartOnlyFromWaiting ==
    [][\A g \in DOMAIN games :
          StartStep(g) =>
              /\ games[g].status # "waiting" =>
                    last'.status = HTTP_400_BAD_REQUEST /\ games'[g] = games[g]
              /\ games[g].status = "waiting" =>
                    /\ IsOk(last')
                    /\ games'[g].status = "active"
                    /\ games'[g].started_at # None]_vars


=============================================================================
